---- MODULE Spec2Model ----
(***************************************************************************)
(* A model of the everyday-mcp-servers repository: the HEB shopping-list   *)
(* server (call-tool handler, tool functions, GraphQL transport client)    *)
(* and the AllRecipes server's call-tool handler.                          *)
(*                                                                         *)
(* JavaScript strings that the code inspects (includes, toLowerCase,       *)
(* trim, regular expressions, concatenation) are tuples of one-character   *)
(* strings.  One action is one turn of the event loop: the synchronous     *)
(* code that runs from an event (a call arriving, the fetch settling, the  *)
(* timer firing, the body settling) up to the next await or to the end.    *)
(***************************************************************************)
EXTENDS Integers, Sequences, FiniteSets, TLC

VARIABLES
    env,            \* process.env (read by config/environment)
    clientInstance, \* the module-level singleton of api/client
    phase,          \* "starting" | "exited" | "idle" | "running" | "done"
    entry,          \* how the invocation was made: handler, tool or execute
    call,           \* the call-tool request: server, name, arguments
    tool,           \* the frame of the running tool function
    exec,           \* the frame of the running HEBGraphQLClient.execute
    calls,          \* the outbound requests issued by this invocation
    result,         \* what the invocation's caller receives
    probe           \* a function applied on its own: input and output

vars == <<env, clientInstance, phase, entry, call, tool, exec, calls, result, probe>>

----------------------------------------------------------------------------
(* Bounds of the model *)

\* most entries of an upstream errors array
MaxErrors == 2
\* most entries of an upstream items array
MaxItems == 2

----------------------------------------------------------------------------
(* Strings *)

UpperCase == <<"A", "B", "C", "D", "E", "F", "G", "H", "I", "J", "K", "L", "M",
    "N", "O", "P", "Q", "R", "S", "T", "U", "V", "W", "X", "Y", "Z">>
LowerCase == <<"a", "b", "c", "d", "e", "f", "g", "h", "i", "j", "k", "l", "m",
    "n", "o", "p", "q", "r", "s", "t", "u", "v", "w", "x", "y", "z">>
Digits == <<"0", "1", "2", "3", "4", "5", "6", "7", "8", "9">>

Range(s) == {s[i] : i \in 1..Len(s)}

\* String.prototype.toLowerCase, one character
ToLowerChar(c) ==
    IF c \in Range(UpperCase)
    THEN LowerCase[CHOOSE i \in 1..Len(UpperCase) : UpperCase[i] = c]
    ELSE c

\* String.prototype.toLowerCase
ToLowerCase(s) == [i \in 1..Len(s) |-> ToLowerChar(s[i])]

\* String.prototype.includes
Includes(s, sub) ==
    \E i \in 1..(Len(s) + 1) :
        /\ i + Len(sub) - 1 <= Len(s)
        /\ SubSeq(s, i, i + Len(sub) - 1) = sub

\* Array.prototype.join
RECURSIVE Join(_, _)
Join(parts, sep) ==
    IF Len(parts) = 0 THEN <<>>
    ELSE IF Len(parts) = 1 THEN parts[1]
    ELSE parts[1] \o sep \o Join(Tail(parts), sep)

\* the decimal text of a non-negative integer, as a template literal writes it
RECURSIVE NumToStr(_)
NumToStr(n) ==
    IF n < 10 THEN <<Digits[n + 1]>>
    ELSE NumToStr(n \div 10) \o <<Digits[(n % 10) + 1]>>

\* an optional value: absent (undefined) or present
None == <<>>
Some(x) == <<x>>
IsSome(o) == Len(o) = 1
Get(o) == o[1]

----------------------------------------------------------------------------
(* Errors: utils/errors *)

HEBErrorClasses == {"HEBError", "AuthenticationError", "NetworkError",
    "ValidationError", "NotFoundError", "RateLimitError"}

\* a thrown value: its class, its name property and its message; a thrown
\* value that is no Error has class "NonError" and holds String(value)
Thrown(cls, name, message) == [cls |-> cls, name |-> name, message |-> message]
NoError == Thrown("none", "", <<>>)

IsError(e) == e.cls \notin {"NonError", "none"}
IsHEBError(e) == e.cls \in HEBErrorClasses

\* error instanceof Error ? error.message : String(error)
ErrorText(e) == e.message

\* 'Invalid or expired authentication. Please update your HEB cookies.'
MSG_AUTH_HTTP == <<"I", "n", "v", "a", "l", "i", "d", " ", "o", "r", " ", "e", "x", "p",
    "i", "r", "e", "d", " ", "a", "u", "t", "h", "e", "n", "t", "i", "c", "a", "t", "i",
    "o", "n", ".", " ", "P", "l", "e", "a", "s", "e", " ", "u", "p", "d", "a", "t", "e",
    " ", "y", "o", "u", "r", " ", "H", "E", "B", " ", "c", "o", "o", "k", "i", "e", "s",
    ".">>
\* 'Authentication failed. Please update your HEB cookies.'
MSG_AUTH_GRAPHQL == <<"A", "u", "t", "h", "e", "n", "t", "i", "c", "a", "t", "i", "o", "n",
    " ", "f", "a", "i", "l", "e", "d", ".", " ", "P", "l", "e", "a", "s", "e", " ", "u",
    "p", "d", "a", "t", "e", " ", "y", "o", "u", "r", " ", "H", "E", "B", " ", "c", "o",
    "o", "k", "i", "e", "s", ".">>
\* 'Rate limit exceeded. Please wait a moment before trying again.'
MSG_RATE_LIMIT == <<"R", "a", "t", "e", " ", "l", "i", "m", "i", "t", " ", "e", "x", "c",
    "e", "e", "d", "e", "d", ".", " ", "P", "l", "e", "a", "s", "e", " ", "w", "a", "i",
    "t", " ", "a", " ", "m", "o", "m", "e", "n", "t", " ", "b", "e", "f", "o", "r", "e",
    " ", "t", "r", "y", "i", "n", "g", " ", "a", "g", "a", "i", "n", ".">>
\* 'HTTP error '
PFX_HTTP_ERROR == <<"H", "T", "T", "P", " ", "e", "r", "r", "o", "r", " ">>
\* ': '
SEP_COLON == <<":", " ">>
\* 'GraphQL error: '
PFX_GRAPHQL_ERROR == <<"G", "r", "a", "p", "h", "Q", "L", " ", "e", "r", "r", "o", "r",
    ":", " ">>
\* ', '
SEP_COMMA == <<",", " ">>
\* 'unauthorized'
S_unauthorized == <<"u", "n", "a", "u", "t", "h", "o", "r", "i", "z", "e", "d">>
\* 'unauthenticated'
S_unauthenticated == <<"u", "n", "a", "u", "t", "h", "e", "n", "t", "i", "c", "a", "t",
    "e", "d">>
\* 'No data returned from HEB API'
MSG_NO_DATA == <<"N", "o", " ", "d", "a", "t", "a", " ", "r", "e", "t", "u", "r", "n", "e",
    "d", " ", "f", "r", "o", "m", " ", "H", "E", "B", " ", "A", "P", "I">>
\* 'Request timed out. Please try again.'
MSG_TIMEOUT == <<"R", "e", "q", "u", "e", "s", "t", " ", "t", "i", "m", "e", "d", " ", "o",
    "u", "t", ".", " ", "P", "l", "e", "a", "s", "e", " ", "t", "r", "y", " ", "a", "g",
    "a", "i", "n", ".">>
\* 'fetch'
S_fetch == <<"f", "e", "t", "c", "h">>
\* 'network'
S_network == <<"n", "e", "t", "w", "o", "r", "k">>
\* 'Network error. Please check your internet connection.'
MSG_NETWORK == <<"N", "e", "t", "w", "o", "r", "k", " ", "e", "r", "r", "o", "r", ".", " ",
    "P", "l", "e", "a", "s", "e", " ", "c", "h", "e", "c", "k", " ", "y", "o", "u", "r",
    " ", "i", "n", "t", "e", "r", "n", "e", "t", " ", "c", "o", "n", "n", "e", "c", "t",
    "i", "o", "n", ".">>
\* 'Unexpected error: '
PFX_UNEXPECTED == <<"U", "n", "e", "x", "p", "e", "c", "t", "e", "d", " ", "e", "r", "r",
    "o", "r", ":", " ">>

----------------------------------------------------------------------------
(* The transport client: api/client *)

\* 10 seconds
REQUEST_TIMEOUT_MS == 10000

AuthenticationError(message) == Thrown("AuthenticationError", "AuthenticationError", message)
RateLimitError(message) == Thrown("RateLimitError", "RateLimitError", message)
NetworkError(message) == Thrown("NetworkError", "NetworkError", message)
HEBError(message) == Thrown("HEBError", "HEBError", message)
ValidationError(message) == Thrown("ValidationError", "ValidationError", message)

\* a JSON value in the position of the envelope's data
Undefined == [t |-> "undefined", v |-> None]
JsonNull == [t |-> "null", v |-> None]
JsonFalse == [t |-> "false", v |-> None]
JsonZero == [t |-> "zero", v |-> None]
JsonEmptyString == [t |-> "emptyString", v |-> None]
JsonObject(o) == [t |-> "object", v |-> Some(o)]

\* JavaScript truthiness of a JSON value: every object is truthy
Truthy(j) == j.t = "object"

\* how an async function ends: it returns a value or throws
Return(v) == [kind |-> "return", value |-> v, error |-> NoError]
Throw(e) == [kind |-> "throw", value |-> Undefined, error |-> e]
Pending == [kind |-> "none", value |-> Undefined, error |-> NoError]

NoRequest == [operationName |-> "", variables |-> [none |-> TRUE],
    extensions |-> [persistedQuery |-> [version |-> 0, sha256Hash |-> ""]]]

ExecIdle == [pc |-> "idle", seq |-> 0, request |-> NoRequest, timerArmed |-> FALSE,
    timerDelay |-> 0, aborted |-> FALSE, fetchCount |-> 0, jsonCalled |-> FALSE,
    response |-> None, result |-> None, caught |-> NoError, outcome |-> Pending]

\* lines 35-54: the controller, the timer and the fetch; `seq` numbers the
\* calls of execute within one invocation
ExecBegin(request, seq) == [ExecIdle EXCEPT !.pc = "awaitFetch", !.seq = seq,
    !.request = request, !.timerArmed = TRUE, !.timerDelay = REQUEST_TIMEOUT_MS,
    !.fetchCount = 1]

\* a faulty catch block: the generic error drops the original message
ExecCatchDropping(error) ==
    IF IsHEBError(error) THEN error
    ELSE IF IsError(error) /\ error.name = "AbortError" THEN NetworkError(MSG_TIMEOUT)
    ELSE IF IsError(error) /\ (Includes(error.message, S_fetch)
                               \/ Includes(error.message, S_network))
    THEN NetworkError(MSG_NETWORK)
    ELSE HEBError(PFX_UNEXPECTED)

\* lines 92-115: what the catch block throws for the value it caught
ExecCatch(error) ==
    IF IsHEBError(error) THEN error
    ELSE IF IsError(error) /\ error.name = "AbortError" THEN NetworkError(MSG_TIMEOUT)
    ELSE IF IsError(error) /\ (Includes(error.message, S_fetch)
                               \/ Includes(error.message, S_network))
    THEN NetworkError(MSG_NETWORK)
    ELSE HEBError(PFX_UNEXPECTED \o ErrorText(error))

\* a faulty catch block: the first failure re-issues the request
ExecThrowRetrying(ex, error) ==
    IF ex.fetchCount < 2
    THEN [ex EXCEPT !.pc = "awaitFetch", !.timerArmed = TRUE, !.aborted = FALSE,
                    !.fetchCount = @ + 1, !.jsonCalled = FALSE,
                    !.response = None, !.result = None]
    ELSE [ex EXCEPT !.pc = "done", !.timerArmed = FALSE, !.caught = error,
                    !.outcome = Throw(ExecCatch(error))]

\* the try block ends with `error` thrown: the catch block runs and execute ends
ExecThrow(ex, error) == [ex EXCEPT !.pc = "done", !.timerArmed = FALSE,
    !.caught = error, !.outcome = Throw(ExecCatch(error))]

\* response.ok
ResponseOk(status) == status >= 200 /\ status <= 299

\* a faulty status classification: 403 is an ordinary HTTP error
ExecOnResponseForbidden(ex, status, statusText) ==
    LET cleared == [ex EXCEPT !.timerArmed = FALSE,
                              !.response = Some([status |-> status,
                                                 statusText |-> statusText])] IN
    IF status = 401
    THEN ExecThrow(cleared, AuthenticationError(MSG_AUTH_HTTP))
    ELSE IF status = 429
    THEN ExecThrow(cleared, RateLimitError(MSG_RATE_LIMIT))
    ELSE IF ~ResponseOk(status)
    THEN ExecThrow(cleared, NetworkError(
             PFX_HTTP_ERROR \o NumToStr(status) \o SEP_COLON \o statusText))
    ELSE [cleared EXCEPT !.pc = "awaitJson", !.jsonCalled = TRUE]

\* lines 56-72: the fetch resolved with a response
ExecOnResponse(ex, status, statusText) ==
    LET cleared == [ex EXCEPT !.timerArmed = FALSE,
                              !.response = Some([status |-> status,
                                                 statusText |-> statusText])] IN
    IF status = 401 \/ status = 403
    THEN ExecThrow(cleared, AuthenticationError(MSG_AUTH_HTTP))
    ELSE IF status = 429
    THEN ExecThrow(cleared, RateLimitError(MSG_RATE_LIMIT))
    ELSE IF ~ResponseOk(status)
    THEN ExecThrow(cleared, NetworkError(
             PFX_HTTP_ERROR \o NumToStr(status) \o SEP_COLON \o statusText))
    ELSE [cleared EXCEPT !.pc = "awaitJson", !.jsonCalled = TRUE]

\* result.errors.map((e) => e.message)
ErrorMessages(errors) == [i \in 1..Len(errors) |-> errors[i].message]

\* a faulty errors check: the search for the two words is case-sensitive
ExecOnJsonCaseSensitive(ex, envelope) ==
    LET parsed == [ex EXCEPT !.result = Some(envelope)] IN
    IF IsSome(envelope.errors) /\ Len(Get(envelope.errors)) > 0
    THEN LET errorMessages == Join(ErrorMessages(Get(envelope.errors)), SEP_COMMA) IN
         IF Includes(errorMessages, S_unauthorized)
            \/ Includes(errorMessages, S_unauthenticated)
         THEN ExecThrow(parsed, AuthenticationError(MSG_AUTH_GRAPHQL))
         ELSE ExecThrow(parsed, HEBError(PFX_GRAPHQL_ERROR \o errorMessages))
    ELSE IF ~Truthy(envelope.data)
    THEN ExecThrow(parsed, HEBError(MSG_NO_DATA))
    ELSE [parsed EXCEPT !.pc = "done", !.outcome = Return(envelope.data)]

\* lines 72-91: the body parsed into the envelope
ExecOnJson(ex, envelope) ==
    LET parsed == [ex EXCEPT !.result = Some(envelope)] IN
    IF IsSome(envelope.errors) /\ Len(Get(envelope.errors)) > 0
    THEN LET errorMessages == Join(ErrorMessages(Get(envelope.errors)), SEP_COMMA) IN
         IF Includes(ToLowerCase(errorMessages), S_unauthorized)
            \/ Includes(ToLowerCase(errorMessages), S_unauthenticated)
         THEN ExecThrow(parsed, AuthenticationError(MSG_AUTH_GRAPHQL))
         ELSE ExecThrow(parsed, HEBError(PFX_GRAPHQL_ERROR \o errorMessages))
    ELSE IF ~Truthy(envelope.data)
    THEN ExecThrow(parsed, HEBError(MSG_NO_DATA))
    ELSE [parsed EXCEPT !.pc = "done", !.outcome = Return(envelope.data)]

\* the timer's callback at line 36: controller.abort()
ExecOnTimer(ex) == [ex EXCEPT !.timerArmed = FALSE, !.aborted = TRUE]

----------------------------------------------------------------------------
(* Input validation: utils/validation *)

WhiteSpace == {" ", "\t", "\n"}

\* String.prototype.trim
RECURSIVE TrimStart(_)
TrimStart(s) ==
    IF Len(s) > 0 /\ s[1] \in WhiteSpace THEN TrimStart(Tail(s)) ELSE s
RECURSIVE TrimEnd(_)
TrimEnd(s) ==
    IF Len(s) > 0 /\ s[Len(s)] \in WhiteSpace
    THEN TrimEnd(SubSeq(s, 1, Len(s) - 1)) ELSE s
Trim(s) == TrimEnd(TrimStart(s))

\* what a validator does: it returns a value or throws a ValidationError
Valid(v) == [ok |-> TRUE, value |-> v, error |-> NoError]
Invalid(e) == [ok |-> FALSE, value |-> <<>>, error |-> e]

\* ' cannot be empty'
SFX_EMPTY == <<" ", "c", "a", "n", "n", "o", "t", " ", "b", "e", " ", "e", "m", "p", "t",
    "y">>
\* ' must be a positive number'
SFX_POSITIVE == <<" ", "m", "u", "s", "t", " ", "b", "e", " ", "a", " ", "p", "o", "s",
    "i", "t", "i", "v", "e", " ", "n", "u", "m", "b", "e", "r">>
\* 'Product ID must be a numeric string'
MSG_PRODUCT_ID == <<"P", "r", "o", "d", "u", "c", "t", " ", "I", "D", " ", "m", "u", "s",
    "t", " ", "b", "e", " ", "a", " ", "n", "u", "m", "e", "r", "i", "c", " ", "s", "t",
    "r", "i", "n", "g">>
\* 'List ID must be a valid UUID'
MSG_LIST_ID == <<"L", "i", "s", "t", " ", "I", "D", " ", "m", "u", "s", "t", " ", "b", "e",
    " ", "a", " ", "v", "a", "l", "i", "d", " ", "U", "U", "I", "D">>
\* 'Search term'
FIELD_SEARCH_TERM == <<"S", "e", "a", "r", "c", "h", " ", "t", "e", "r", "m">>
\* 'Max results'
FIELD_MAX_RESULTS == <<"M", "a", "x", " ", "r", "e", "s", "u", "l", "t", "s">>
\* 'Quantity'
FIELD_QUANTITY == <<"Q", "u", "a", "n", "t", "i", "t", "y">>

\* validateNonEmpty: `value` is an optional string
validateNonEmpty(value, fieldName) ==
    IF ~IsSome(value) \/ Len(Get(value)) = 0 \/ Len(Trim(Get(value))) = 0
    THEN Invalid(ValidationError(fieldName \o SFX_EMPTY))
    ELSE Valid(Trim(Get(value)))

\* a JavaScript number: an integer, or NaN
Num(n) == [isNaN |-> FALSE, n |-> n]
NaN == [isNaN |-> TRUE, n |-> 0]

\* value <= 0, which is false for NaN
LessOrEqualZero(value) == ~value.isNaN /\ value.n <= 0

\* a faulty validatePositive: zero passes
validatePositiveNumberOrZero(value, fieldName) ==
    IF ~value.isNaN /\ value.n < 0
    THEN Invalid(ValidationError(fieldName \o SFX_POSITIVE))
    ELSE Valid(value)

\* validatePositive, for every number
validatePositiveNumber(value, fieldName) ==
    IF LessOrEqualZero(value)
    THEN Invalid(ValidationError(fieldName \o SFX_POSITIVE))
    ELSE Valid(value)

\* validatePositive, for the integers
validatePositive(value, fieldName) ==
    LET checked == validatePositiveNumber(Num(value), fieldName) IN
    IF checked.ok THEN [ok |-> TRUE, value |-> value, error |-> NoError]
    ELSE checked

\* /^\d+$/
IsNumeric(s) == Len(s) > 0 /\ \A i \in 1..Len(s) : s[i] \in Range(Digits)

\* validateProductId
validateProductId(productId) ==
    LET trimmed == Trim(productId) IN
    IF ~IsNumeric(trimmed)
    THEN Invalid(ValidationError(MSG_PRODUCT_ID))
    ELSE Valid(trimmed)

HexDigits == Range(Digits) \cup {"a", "b", "c", "d", "e", "f"}
    \cup {"A", "B", "C", "D", "E", "F"}

\* /^[0-9a-f]{8}-[0-9a-f]{4}-[0-9a-f]{4}-[0-9a-f]{4}-[0-9a-f]{12}$/i
IsUuid(s) ==
    /\ Len(s) = 36
    /\ \A i \in 1..36 :
        IF i \in {9, 14, 19, 24} THEN s[i] = "-" ELSE s[i] \in HexDigits

\* validateListId
validateListId(listId) ==
    LET trimmed == Trim(listId) IN
    IF ~IsUuid(trimmed)
    THEN Invalid(ValidationError(MSG_LIST_ID))
    ELSE Valid(trimmed)

----------------------------------------------------------------------------
(* Query builders: api/queries *)

QUERY_HASHES == [
    productSearchItems |-> "fb40e1079a8d12236ed91e90dfe7dccbccbf416645e19b46affb880c88b7af8f",
    typeaheadContent |-> "1ed956c0f10efcfc375321f33c40964bc236fff1397a4e86b7b53cb3b18ad329",
    getShoppingListsV2 |-> "954a24fe9f3cf6f904fdb602b412e355271dbc8b919303ae84c8328e555e99fa",
    getShoppingListV2 |-> "085fcaef4f2f05ee16ea44c1489801e7ae7e7a95311cbf6d7a3f09135f0ea557",
    addToShoppingListV2 |-> "6b1534f6270004656ac14944f790a993822fba67fe24c9558713016cea2217c8",
    deleteShoppingListItems |-> "d680a2e6c47fe0f832af2628378af8e17da7d448c46b15e799d609a56aa13e69",
    updateShoppingListItem |-> "b57aa69ab197bcc3bface2afe47ff8b778eb1313c5caa479d41d40385af61818"]

\* a faulty envelope: every operation carries the hash of productSearchItems
createPersistedQueryOneHash(operationName, variables) ==
    [operationName |-> operationName,
     variables |-> variables,
     extensions |-> [persistedQuery |->
         [version |-> 1, sha256Hash |-> QUERY_HASHES.productSearchItems]]]

createPersistedQuery(operationName, variables) ==
    [operationName |-> operationName,
     variables |-> variables,
     extensions |-> [persistedQuery |->
         [version |-> 1, sha256Hash |-> QUERY_HASHES[operationName]]]]

PageSort == [sort |-> "CATEGORY", sortDirection |-> "ASC"]

createSearchProductsQuery(term, maxResults, storeId) ==
    createPersistedQuery("productSearchItems", [
        includeUnitPriceDiff |-> FALSE,
        userIsLoggedIn |-> TRUE,
        params |-> [
            addressAllowAlcohol |-> FALSE,
            doNotSuggestPhrase |-> FALSE,
            ignoreRules |-> FALSE,
            ignoreSynonyms |-> FALSE,
            includeFullCategoryHierarchy |-> FALSE,
            pageIndex |-> 0,
            pageSize |-> maxResults,
            query |-> term,
            shoppingContext |-> "EXPLORE_MY_STORE",
            sortBy |-> "SCORE",
            sortDirection |-> "DESC",
            storeId |-> storeId,
            timeSlotStartTime |-> "null"],
        storeId |-> storeId,
        shoppingContext |-> "EXPLORE_MY_STORE",
        searchMode |-> "SHOPPING_LIST_SEARCH",
        searchContextToken |-> "null",
        searchPageLayout |-> "MOBILE_WEB_SEARCH_PAGE_LAYOUT"])

createGetShoppingListsQuery == createPersistedQuery("getShoppingListsV2", [none |-> TRUE])

createGetShoppingListQuery(listId) ==
    createPersistedQuery("getShoppingListV2", [
        input |-> [id |-> listId,
                   page |-> [page |-> 0, size |-> 500,
                             sort |-> "CATEGORY", sortDirection |-> "ASC"]]])

\* `count` copies of `x`
RECURSIVE Repeat(_, _)
Repeat(x, count) == IF count <= 0 THEN <<>> ELSE <<x>> \o Repeat(x, count - 1)

\* a faulty expansion: one entry per product, whatever its quantity
ExpandProductIdsOnce(productIds, quantities, index) ==
    [i \in 1..Len(productIds) |-> productIds[i]]

\* lines 333-339: quantities?.[index] || 1, then qty pushes of productId
RECURSIVE ExpandProductIds(_, _, _)
ExpandProductIds(productIds, quantities, index) ==
    IF index > Len(productIds) THEN <<>>
    ELSE LET given == IF index <= Len(quantities) THEN quantities[index] ELSE 0
             qty == IF given = 0 THEN 1 ELSE given
         IN Repeat(productIds[index], qty)
                \o ExpandProductIds(productIds, quantities, index + 1)

createAddToListQuery(listId, productIds, quantities) ==
    LET expandedProductIds == ExpandProductIds(productIds, quantities, 1)
        listItems == [i \in 1..Len(expandedProductIds) |->
                         [item |-> [productId |-> expandedProductIds[i]]]]
    IN createPersistedQuery("addToShoppingListV2", [
           input |-> [listId |-> listId, listItems |-> listItems, page |-> PageSort]])

createRemoveFromListQuery(listId, itemIds) ==
    createPersistedQuery("deleteShoppingListItems", [
        input |-> [listId |-> listId, itemIds |-> itemIds, page |-> PageSort]])

createUpdateItemQuantityQuery(listId, itemId, quantity) ==
    createPersistedQuery("updateShoppingListItem", [
        input |-> [itemId |-> itemId, listId |-> listId,
                   quantityOrWeight |-> [quantity |-> quantity],
                   page |-> PageSort]])

----------------------------------------------------------------------------
(* Environment and the client singleton: config/environment, api/client *)

\* JavaScript truthiness of an optional string
TruthyStr(o) == IsSome(o) /\ Len(Get(o)) > 0

\* the constructor: the cookie header composed from the environment
HEBGraphQLClient(e) == [cookieString |-> Join(<<
    <<"s", "a", "t", "=">> \o e.HEB_SAT_COOKIE,
    <<"J", "S", "E", "S", "S", "I", "O", "N", "I", "D", "=">> \o e.HEB_JSESSIONID,
    <<"r", "e", "e", "s", "e", "8", "4", "=">> \o e.HEB_REESE84,
    <<"C", "U", "R", "R", "_", "S", "E", "S", "S", "I", "O", "N", "_", "S", "T", "O",
      "R", "E", "=">> \o e.HEB_STORE_ID>>, <<";", " ">>)]

\* a faulty getClient: every call after the first replaces the instance by
\* one without a cookie header
getClientReplacing(instance, e) ==
    IF IsSome(instance) THEN Some([cookieString |-> <<>>])
    ELSE Some(HEBGraphQLClient(e))

\* getClient: the instance after the call (constructed on first use)
getClient(instance, e) ==
    IF IsSome(instance) THEN instance ELSE Some(HEBGraphQLClient(e))

\* the value of a digit character
DigitValue(c) == (CHOOSE i \in 1..10 : Digits[i] = c) - 1

\* the value of a string of digits
RECURSIVE DigitsValue(_)
DigitsValue(s) ==
    IF Len(s) = 0 THEN 0
    ELSE 10 * DigitsValue(SubSeq(s, 1, Len(s) - 1)) + DigitValue(s[Len(s)])

\* the longest prefix of digits
RECURSIVE DigitPrefix(_)
DigitPrefix(s) ==
    IF Len(s) > 0 /\ s[1] \in Range(Digits)
    THEN <<s[1]>> \o DigitPrefix(Tail(s)) ELSE <<>>

\* parseInt(text, 10): leading white space, a sign, then digits; NaN otherwise
parseInt(text) ==
    LET t == TrimStart(text)
        negative == Len(t) > 0 /\ t[1] = "-"
        signed == Len(t) > 0 /\ t[1] \in {"-", "+"}
        digits == DigitPrefix(IF signed THEN Tail(t) ELSE t)
    IN IF Len(digits) = 0 THEN [isNaN |-> TRUE, n |-> 0]
       ELSE [isNaN |-> FALSE,
             n |-> IF negative THEN 0 - DigitsValue(digits) ELSE DigitsValue(digits)]

----------------------------------------------------------------------------
(* Tool functions: tools/* *)

\* a tool function's frame: its position and its local variables
Frame(fn, input) == [fn |-> fn, pc |-> "start", input |-> input,
    productId |-> <<>>, productName |-> <<>>, quantity |-> 0,
    listId |-> <<>>, itemIds |-> <<>>, cmp |-> Pending]
NoFrame == [Frame("none", [none |-> TRUE]) EXCEPT !.pc = "none"]

\* a tool function ran up to an await of client.execute(request) ...
Await(frame, pc, request, client) == [tool |-> [frame EXCEPT !.pc = pc],
    request |-> Some(request), cmp |-> Pending, client |-> client]
\* ... or up to its end
Finish(frame, cmp, client) == [tool |-> [frame EXCEPT !.pc = "done", !.cmp = cmp],
    request |-> None, cmp |-> cmp, client |-> client]

\* new NotFoundError(resource, identifier)
NotFoundError(resource, identifier) ==
    LET id == IF Len(identifier) > 0
              \* ' with ID "' identifier '"'
              THEN <<" ", "w", "i", "t", "h", " ", "I", "D", " ", "\"">> \o identifier \o <<"\"">>
              ELSE <<>>
    \* ' not found. Please verify and try again.'
    IN Thrown("NotFoundError", "NotFoundError", resource \o id \o
        <<" ", "n", "o", "t", " ", "f", "o", "u", "n", "d", ".", " ", "P", "l", "e", "a", "s", "e", " ", "v", "e", "r", "i", "f", "y", " ", "a", "n", "d", " ", "t", "r", "y", " ", "a", "g", "a", "i", "n", ".">>)

\* a TypeError raised by reading a property of undefined
TypeErrorReading(property) == Thrown("TypeError", "TypeError",
    \* "Cannot read properties of undefined (reading '"
    <<"C", "a", "n", "n", "o", "t", " ", "r", "e", "a", "d", " ", "p", "r", "o", "p", "e", "r", "t", "i", "e", "s", " ", "o", "f", " ", "u", "n", "d", "e", "f", "i", "n", "e", "d", " ", "(", "r", "e", "a", "d", "i", "n", "g", " ", "'">>
        \o property \o <<"'", ")">>)

\* 'No list ID provided and HEB_DEFAULT_LIST_ID is not set'
MSG_NO_LIST_ID == <<"N", "o", " ", "l", "i", "s", "t", " ", "I", "D", " ", "p", "r", "o",
    "v", "i", "d", "e", "d", " ", "a", "n", "d", " ", "H", "E", "B", "_", "D", "E", "F",
    "A", "U", "L", "T", "_", "L", "I", "S", "T", "_", "I", "D", " ", "i", "s", " ", "n",
    "o", "t", " ", "s", "e", "t">>

\* a faulty choice of the list: the default list wins over input.listId
ResolveListIdDefaultFirst(inputListId, e) ==
    IF TruthyStr(e.HEB_DEFAULT_LIST_ID) THEN validateListId(Get(e.HEB_DEFAULT_LIST_ID))
    ELSE IF ~TruthyStr(inputListId)
    THEN Invalid(ValidationError(MSG_NO_LIST_ID))
    ELSE validateListId(Get(inputListId))

\* the block every list tool starts with: input.listId, else the default list
ResolveListId(inputListId, e) ==
    IF TruthyStr(inputListId) THEN validateListId(Get(inputListId))
    ELSE IF ~TruthyStr(e.HEB_DEFAULT_LIST_ID)
    THEN Invalid(ValidationError(MSG_NO_LIST_ID))
    ELSE validateListId(Get(e.HEB_DEFAULT_LIST_ID))

\* the object under a key of the data object, when data holds it
Field(data, key) == Get(data.v)[key]

\* array.find(pred)?.url for pred = (img) => img.size === 'MEDIUM'
MediumImageUrl(images) ==
    IF \E i \in 1..Len(images) : images[i].size = "MEDIUM"
    THEN Some(images[CHOOSE i \in 1..Len(images) :
                  /\ images[i].size = "MEDIUM"
                  /\ \A j \in 1..(i - 1) : images[j].size # "MEDIUM"].url)
    ELSE None

\* a faulty selection: the first entry, whatever its size
SelectImageUrlFirst(productImageUrls) ==
    LET images == IF IsSome(productImageUrls) THEN Get(productImageUrls) ELSE <<>>
    IN IF Len(images) > 0 THEN Some(images[1].url) ELSE None

\* mediumImage?.url || productImageUrls?.[0]?.url
SelectImageUrl(productImageUrls) ==
    LET images == IF IsSome(productImageUrls) THEN Get(productImageUrls) ELSE <<>>
        medium == MediumImageUrl(images)
    IN IF IsSome(medium) /\ Get(medium) # "" THEN medium
       ELSE IF Len(images) > 0 THEN Some(images[1].url)
       ELSE None

\* contextPrices?.find((cp) => cp.context === 'ONLINE')?.salePrice?.amount
OnlinePrice(contextPrices) ==
    LET prices == IF IsSome(contextPrices) THEN Get(contextPrices) ELSE <<>> IN
    IF \E i \in 1..Len(prices) : prices[i].context = "ONLINE"
    THEN LET cp == prices[CHOOSE i \in 1..Len(prices) :
                       /\ prices[i].context = "ONLINE"
                       /\ \A j \in 1..(i - 1) : prices[j].context # "ONLINE"]
         IN IF IsSome(cp.salePrice) THEN Some(Get(cp.salePrice).amount) ELSE None
    ELSE None

\* a faulty mapping: LOW_STOCK is not told from the other states
ToProductTwoStates(p) ==
    LET sku == IF IsSome(p.SKUs) /\ Len(Get(p.SKUs)) > 0
               THEN Some(Get(p.SKUs)[1]) ELSE None
    IN [productId |-> p.id,
        name |-> p.fullDisplayName,
        price |-> IF IsSome(sku) THEN OnlinePrice(Get(sku).contextPrices) ELSE None,
        imageUrl |-> SelectImageUrl(p.productImageUrls),
        brand |-> IF IsSome(p.brand) THEN Some(Get(p.brand).name) ELSE None,
        size |-> IF IsSome(sku) THEN Get(sku).customerFriendlySize ELSE None,
        availability |->
            IF Get(p.inventory).inventoryState = "IN_STOCK" THEN "IN_STOCK"
            ELSE "OUT_OF_STOCK"]

\* search-products lines 71-91: one upstream item to a Product
ToProduct(p) ==
    LET sku == IF IsSome(p.SKUs) /\ Len(Get(p.SKUs)) > 0
               THEN Some(Get(p.SKUs)[1]) ELSE None
    IN [productId |-> p.id,
        name |-> p.fullDisplayName,
        price |-> IF IsSome(sku) THEN OnlinePrice(Get(sku).contextPrices) ELSE None,
        imageUrl |-> SelectImageUrl(p.productImageUrls),
        brand |-> IF IsSome(p.brand) THEN Some(Get(p.brand).name) ELSE None,
        size |-> IF IsSome(sku) THEN Get(sku).customerFriendlySize ELSE None,
        availability |->
            IF Get(p.inventory).inventoryState = "IN_STOCK" THEN "IN_STOCK"
            ELSE IF Get(p.inventory).inventoryState = "LOW_STOCK" THEN "LOW_STOCK"
            ELSE "OUT_OF_STOCK"]

\* response.productSearchItems?.searchGrid?.items || []
SearchItems(data) ==
    LET psi == Field(data, "productSearchItems")
        grid == IF IsSome(psi) THEN Get(psi).searchGrid ELSE None
        items == IF IsSome(grid) THEN Get(grid).items ELSE None
    IN IF IsSome(items) THEN Get(items) ELSE <<>>

\* searchProducts lines 55-66: up to the await; input.searchTerm is optional
\* here because validateNonEmpty accepts undefined
SearchStart(input, instance, e) ==
    LET searchTerm == validateNonEmpty(input.searchTerm, FIELD_SEARCH_TERM)
        maxResults == IF input.maxResults # 0
                      THEN validatePositive(input.maxResults, FIELD_MAX_RESULTS)
                      ELSE [ok |-> TRUE, value |-> 10, error |-> NoError]
        storeId == parseInt(e.HEB_STORE_ID)
    IN IF ~searchTerm.ok
       THEN [ok |-> FALSE, error |-> searchTerm.error, request |-> NoRequest,
             client |-> instance]
       ELSE IF ~maxResults.ok
       THEN [ok |-> FALSE, error |-> maxResults.error, request |-> NoRequest,
             client |-> instance]
       ELSE [ok |-> TRUE, error |-> NoError,
             request |-> createSearchProductsQuery(
                 searchTerm.value, maxResults.value, storeId),
             client |-> getClient(instance, e)]

\* searchProducts lines 66-91: from the end of execute to the end
SearchFinish(cmp) ==
    IF cmp.kind = "throw" THEN cmp
    ELSE LET products == SearchItems(cmp.value) IN
         IF \E i \in 1..Len(products) : ~IsSome(products[i].inventory)
         THEN Throw(TypeErrorReading(<<"i", "n", "v", "e", "n", "t", "o", "r", "y", "S", "t", "a", "t", "e">>))
         ELSE Return([i \in 1..Len(products) |-> ToProduct(products[i])])
\* 'Either productId or searchTerm must be provided'
MSG_EITHER_PRODUCT == <<"E", "i", "t", "h", "e", "r", " ", "p", "r", "o", "d", "u", "c",
    "t", "I", "d", " ", "o", "r", " ", "s", "e", "a", "r", "c", "h", "T", "e", "r", "m",
    " ", "m", "u", "s", "t", " ", "b", "e", " ", "p", "r", "o", "v", "i", "d", "e", "d">>
\* 'Failed to add item to shopping list'
MSG_FAILED_ADD == <<"F", "a", "i", "l", "e", "d", " ", "t", "o", " ", "a", "d", "d", " ",
    "i", "t", "e", "m", " ", "t", "o", " ", "s", "h", "o", "p", "p", "i", "n", "g", " ",
    "l", "i", "s", "t">>

\* addToList lines 88-104: the list id, then the mutation up to its await
AddToListResolveList(frame, instance, e) ==
    LET listId == ResolveListId(frame.input.listId, e) IN
    IF ~listId.ok THEN Finish(frame, Throw(listId.error), instance)
    ELSE Await([frame EXCEPT !.listId = listId.value], "awaitExecute",
               createAddToListQuery(listId.value, <<frame.productId>>,
                                    <<frame.quantity>>),
               getClient(instance, e))

\* addToList lines 58-86: from the call to the first await
AddToListStart(input, instance, e) ==
    LET frame == Frame("addToList", input)
        quantity == validatePositive(input.quantity, FIELD_QUANTITY)
    IN IF ~quantity.ok THEN Finish(frame, Throw(quantity.error), instance)
       ELSE IF TruthyStr(input.productId)
       THEN LET productId == validateProductId(Get(input.productId)) IN
            IF ~productId.ok THEN Finish(frame, Throw(productId.error), instance)
            ELSE AddToListResolveList(
                     [frame EXCEPT !.quantity = quantity.value,
                                   !.productId = productId.value,
                                   \* 'Product ' productId
                                   !.productName = <<"P", "r", "o", "d", "u", "c", "t", " ">>
                                                       \o productId.value],
                     instance, e)
       ELSE IF TruthyStr(input.searchTerm)
       THEN LET search == SearchStart(
                    [searchTerm |-> input.searchTerm, maxResults |-> 1],
                    instance, e)
            IN IF ~search.ok THEN Finish(frame, Throw(search.error), search.client)
               ELSE Await([frame EXCEPT !.quantity = quantity.value],
                          "awaitSearch", search.request, search.client)
       ELSE Finish(frame, Throw(ValidationError(MSG_EITHER_PRODUCT)), instance)

\* a faulty composite add: the product id is the search term, not the
\* first search result's
AddToListAfterSearchByTerm(frame, cmp, instance, e) ==
    LET searchResults == SearchFinish(cmp) IN
    IF searchResults.kind = "throw" THEN Finish(frame, searchResults, instance)
    ELSE IF Len(searchResults.value) = 0
    THEN Finish(frame, Throw(NotFoundError(
             <<"P", "r", "o", "d", "u", "c", "t">>, Get(frame.input.searchTerm))), instance)
    ELSE AddToListResolveList(
             [frame EXCEPT !.productId = Get(frame.input.searchTerm),
                           !.productName = Get(frame.input.searchTerm)],
             instance, e)

\* addToList lines 72-86: searchProducts ended with `cmp`
AddToListAfterSearch(frame, cmp, instance, e) ==
    LET searchResults == SearchFinish(cmp) IN
    IF searchResults.kind = "throw" THEN Finish(frame, searchResults, instance)
    ELSE IF Len(searchResults.value) = 0
    THEN Finish(frame, Throw(NotFoundError(
             <<"P", "r", "o", "d", "u", "c", "t">>, Get(frame.input.searchTerm))), instance)
    ELSE AddToListResolveList(
             [frame EXCEPT !.productId = searchResults.value[1].productId,
                           !.productName = searchResults.value[1].name],
             instance, e)

\* addToList lines 104-120: execute ended with `cmp`
AddToListAfterExecute(frame, cmp, instance) ==
    IF cmp.kind = "throw" THEN Finish(frame, cmp, instance)
    ELSE LET list == Field(cmp.value, "addShoppingListItemsV2") IN
         IF ~IsSome(list)
         THEN Finish(frame, Throw(ValidationError(MSG_FAILED_ADD)), instance)
         ELSE Finish(frame, Return([
                  success |-> TRUE,
                  productId |-> frame.productId,
                  productName |-> frame.productName,
                  quantity |-> frame.quantity,
                  listId |-> Get(list).id,
                  listName |-> Get(list).name,
                  \* 'Successfully added "' productName '" (x' quantity ') to "' name '"'
                  message |-> <<"S", "u", "c", "c", "e", "s", "s", "f", "u", "l", "l", "y", " ", "a", "d", "d", "e", "d", " ", "\"">>
                      \o frame.productName \o <<"\"", " ", "(", "x">>
                      \o NumToStr(frame.quantity) \o <<")", " ", "t", "o", " ", "\"">>
                      \o Get(list).name \o <<"\"">>]), instance)

\* getShoppingLists lines 23-26: up to the await
GetShoppingListsStart(instance, e) ==
    Await(Frame("getShoppingLists", [none |-> TRUE]), "awaitExecute",
          createGetShoppingListsQuery, getClient(instance, e))

\* a faulty mapping: createdAt and updatedAt are the wrong way round
GetShoppingListsFinishSwapped(cmp) ==
    IF cmp.kind = "throw" THEN cmp
    ELSE LET v2 == Field(cmp.value, "getShoppingListsV2")
             found == IF IsSome(v2) THEN Get(v2).lists ELSE None
             lists == IF IsSome(found) THEN Get(found) ELSE <<>>
         IN Return([i \in 1..Len(lists) |->
                [id |-> lists[i].id,
                 name |-> lists[i].name,
                 itemCount |-> lists[i].totalItemCount,
                 createdAt |-> lists[i].updated,
                 updatedAt |-> lists[i].created]])

\* getShoppingLists lines 28-36
GetShoppingListsFinish(cmp) ==
    IF cmp.kind = "throw" THEN cmp
    ELSE LET v2 == Field(cmp.value, "getShoppingListsV2")
             found == IF IsSome(v2) THEN Get(v2).lists ELSE None
             lists == IF IsSome(found) THEN Get(found) ELSE <<>>
         IN Return([i \in 1..Len(lists) |->
                [id |-> lists[i].id,
                 name |-> lists[i].name,
                 itemCount |-> lists[i].totalItemCount,
                 createdAt |-> lists[i].created,
                 updatedAt |-> lists[i].updated]])

\* getListItems lines 54-71: up to the await
GetListItemsStart(input, instance, e) ==
    LET frame == Frame("getListItems", input)
        listId == ResolveListId(input.listId, e)
    IN IF ~listId.ok
       THEN [ok |-> FALSE, error |-> listId.error, request |-> NoRequest,
             listId |-> <<>>, client |-> instance]
       ELSE [ok |-> TRUE, error |-> NoError,
             request |-> createGetShoppingListQuery(listId.value),
             listId |-> listId.value, client |-> getClient(instance, e)]

\* get-list-items lines 80-94: one upstream item to a ListItem
ToListItem(item) ==
    [id |-> item.id,
     productId |-> Get(item.product).id,
     name |-> Get(item.product).fullDisplayName,
     quantity |-> item.quantity,
     checked |-> item.checked,
     price |-> IF IsSome(item.itemPrice)
               THEN Some(Get(item.itemPrice).salePrice) ELSE None,
     imageUrl |-> SelectImageUrl(Get(item.product).productImageUrls)]

\* getListItems lines 71-103: execute ended with `cmp`
GetListItemsFinish(listId, cmp) ==
    IF cmp.kind = "throw" THEN cmp
    ELSE LET found == Field(cmp.value, "getShoppingListV2") IN
         IF ~IsSome(found)
         \* 'Shopping list with ID "' listId '" not found'
         THEN Throw(ValidationError(<<"S", "h", "o", "p", "p", "i", "n", "g", " ", "l", "i", "s", "t", " ", "w", "i", "t", "h", " ", "I", "D", " ", "\"">>
                  \o listId \o <<"\"", " ", "n", "o", "t", " ", "f", "o", "u", "n", "d">>))
         ELSE LET list == Get(found)
                  items == IF IsSome(list.itemPage) /\ IsSome(Get(list.itemPage).items)
                           THEN Get(Get(list.itemPage).items) ELSE <<>>
                  thisPage == IF IsSome(list.itemPage)
                              THEN Get(list.itemPage).thisPage ELSE None
              IN IF \E i \in 1..Len(items) : ~IsSome(items[i].product)
                 THEN Throw(TypeErrorReading(<<"p", "r", "o", "d", "u", "c", "t", "I", "m", "a", "g", "e", "U", "r", "l", "s">>))
                 ELSE Return([
                          id |-> list.id,
                          name |-> list.name,
                          itemCount |-> IF IsSome(thisPage)
                                        THEN Get(thisPage).totalCount ELSE 0,
                          createdAt |-> list.created,
                          updatedAt |-> list.updated,
                          items |-> [i \in 1..Len(items) |-> ToListItem(items[i])]])

\* 'Either itemIds or productName must be provided'
MSG_EITHER_ITEMS == <<"E", "i", "t", "h", "e", "r", " ", "i", "t", "e", "m", "I", "d", "s",
    " ", "o", "r", " ", "p", "r", "o", "d", "u", "c", "t", "N", "a", "m", "e", " ", "m",
    "u", "s", "t", " ", "b", "e", " ", "p", "r", "o", "v", "i", "d", "e", "d">>
\* 'Failed to remove items from shopping list'
MSG_FAILED_REMOVE == <<"F", "a", "i", "l", "e", "d", " ", "t", "o", " ", "r", "e", "m",
    "o", "v", "e", " ", "i", "t", "e", "m", "s", " ", "f", "r", "o", "m", " ", "s", "h",
    "o", "p", "p", "i", "n", "g", " ", "l", "i", "s", "t">>
\* 'Failed to update item quantity'
MSG_FAILED_UPDATE == <<"F", "a", "i", "l", "e", "d", " ", "t", "o", " ", "u", "p", "d",
    "a", "t", "e", " ", "i", "t", "e", "m", " ", "q", "u", "a", "n", "t", "i", "t", "y">>

\* removeFromList line 93-96: the mutation up to its await
RemoveFromListExecute(frame, itemIds, instance, e) ==
    Await([frame EXCEPT !.itemIds = itemIds], "awaitExecute",
          createRemoveFromListQuery(frame.listId, itemIds), getClient(instance, e))

\* removeFromList lines 50-91: from the call to the first await;
\* input.itemIds is an optional array, and every array is truthy
RemoveFromListStart(input, instance, e) ==
    LET frame == Frame("removeFromList", input)
        listId == ResolveListId(input.listId, e)
    IN IF ~listId.ok THEN Finish(frame, Throw(listId.error), instance)
       ELSE LET located == [frame EXCEPT !.listId = listId.value] IN
            IF IsSome(input.itemIds)
            THEN RemoveFromListExecute(located, Get(input.itemIds), instance, e)
            ELSE IF TruthyStr(input.productName)
            THEN LET fetch == GetListItemsStart(
                         [listId |-> Some(listId.value)], instance, e)
                 IN IF ~fetch.ok THEN Finish(located, Throw(fetch.error), fetch.client)
                    ELSE Await(located, "awaitGetListItems", fetch.request,
                               fetch.client)
            ELSE Finish(located, Throw(ValidationError(MSG_EITHER_ITEMS)), instance)

\* the ids of the items whose lower-cased name includes `searchTerm`
RECURSIVE MatchingItemIds(_, _)
MatchingItemIds(items, searchTerm) ==
    IF Len(items) = 0 THEN <<>>
    ELSE (IF Includes(ToLowerCase(items[1].name), searchTerm)
          THEN <<items[1].id>> ELSE <<>>)
         \o MatchingItemIds(Tail(items), searchTerm)

\* a faulty composite remove: the mutation is sent also when no item matches
RemoveFromListAfterListSendingNone(frame, cmp, instance, e) ==
    LET listDetail == GetListItemsFinish(frame.listId, cmp) IN
    IF listDetail.kind = "throw" THEN Finish(frame, listDetail, instance)
    ELSE IF Len(listDetail.value.items) = 0
    THEN Finish(frame, Throw(NotFoundError(
             <<"I", "t", "e", "m", "s">>, <<"i", "n", " ", "s", "h", "o", "p", "p", "i", "n", "g", " ", "l", "i", "s", "t">>)), instance)
    ELSE RemoveFromListExecute(frame,
             MatchingItemIds(listDetail.value.items,
                             ToLowerCase(Get(frame.input.productName))),
             instance, e)

\* removeFromList lines 72-88: getListItems ended with `cmp`
RemoveFromListAfterList(frame, cmp, instance, e) ==
    LET listDetail == GetListItemsFinish(frame.listId, cmp) IN
    IF listDetail.kind = "throw" THEN Finish(frame, listDetail, instance)
    ELSE IF Len(listDetail.value.items) = 0
    THEN Finish(frame, Throw(NotFoundError(
             <<"I", "t", "e", "m", "s">>, <<"i", "n", " ", "s", "h", "o", "p", "p", "i", "n", "g", " ", "l", "i", "s", "t">>)), instance)
    ELSE LET itemIds == MatchingItemIds(listDetail.value.items,
                            ToLowerCase(Get(frame.input.productName)))
         IN IF Len(itemIds) = 0
            THEN Finish(frame, Throw(NotFoundError(
                     <<"I", "t", "e", "m">>, Get(frame.input.productName))), instance)
            ELSE RemoveFromListExecute(frame, itemIds, instance, e)

\* removeFromList lines 96-110: execute ended with `cmp`
RemoveFromListAfterExecute(frame, cmp, instance) ==
    IF cmp.kind = "throw" THEN Finish(frame, cmp, instance)
    ELSE LET list == Field(cmp.value, "deleteShoppingListItemsV2") IN
         IF ~IsSome(list)
         THEN Finish(frame, Throw(ValidationError(MSG_FAILED_REMOVE)), instance)
         ELSE Finish(frame, Return([
                  success |-> TRUE,
                  removedCount |-> Len(frame.itemIds),
                  listId |-> Get(list).id,
                  listName |-> Get(list).name,
                  \* 'Successfully removed ' count ' item(s) from "' name '"'
                  message |-> <<"S", "u", "c", "c", "e", "s", "s", "f", "u", "l", "l", "y", " ", "r", "e", "m", "o", "v", "e", "d", " ">>
                      \o NumToStr(Len(frame.itemIds))
                      \o <<" ", "i", "t", "e", "m", "(", "s", ")", " ", "f", "r", "o", "m", " ", "\"">>
                      \o Get(list).name \o <<"\"">>]), instance)

\* updateItemQuantity lines 46-63: from the call to the await
UpdateItemQuantityStart(input, instance, e) ==
    LET frame == Frame("updateItemQuantity", input)
        listId == ResolveListId(input.listId, e)
    IN IF ~listId.ok THEN Finish(frame, Throw(listId.error), instance)
       ELSE Await([frame EXCEPT !.listId = listId.value], "awaitExecute",
                  createUpdateItemQuantityQuery(
                      listId.value, input.itemId, input.quantity),
                  getClient(instance, e))

\* updateItemQuantity lines 63-78: execute ended with `cmp`
UpdateItemQuantityAfterExecute(frame, cmp, instance) ==
    IF cmp.kind = "throw" THEN Finish(frame, cmp, instance)
    ELSE LET list == Field(cmp.value, "updateShoppingListItemV2") IN
         IF ~IsSome(list)
         THEN Finish(frame, Throw(ValidationError(MSG_FAILED_UPDATE)), instance)
         ELSE Finish(frame, Return([
                  success |-> TRUE,
                  itemId |-> frame.input.itemId,
                  quantity |-> frame.input.quantity,
                  listId |-> Get(list).id,
                  listName |-> Get(list).name,
                  \* 'Successfully updated item quantity to ' quantity ' in "' name '"'
                  message |-> <<"S", "u", "c", "c", "e", "s", "s", "f", "u", "l", "l", "y", " ", "u", "p", "d", "a", "t", "e", "d", " ", "i", "t", "e", "m", " ", "q", "u", "a", "n", "t", "i", "t", "y", " ", "t", "o", " ">>
                      \o NumToStr(frame.input.quantity) \o <<" ", "i", "n", " ", "\"">>
                      \o Get(list).name \o <<"\"">>]), instance)

\* the tool function `fn` called with `input`: up to its first await or its end
ToolStart(fn, input, instance, e) ==
    CASE fn = "searchProducts" ->
            LET search == SearchStart(input, instance, e) IN
            IF ~search.ok
            THEN Finish(Frame(fn, input), Throw(search.error), search.client)
            ELSE Await(Frame(fn, input), "awaitExecute", search.request,
                       search.client)
      [] fn = "getListItems" ->
            LET fetch == GetListItemsStart(input, instance, e) IN
            IF ~fetch.ok
            THEN Finish(Frame(fn, input), Throw(fetch.error), fetch.client)
            ELSE Await([Frame(fn, input) EXCEPT !.listId = fetch.listId],
                       "awaitExecute", fetch.request, fetch.client)
      [] fn = "getShoppingLists" -> GetShoppingListsStart(instance, e)
      [] fn = "addToList" -> AddToListStart(input, instance, e)
      [] fn = "removeFromList" -> RemoveFromListStart(input, instance, e)
      [] fn = "updateItemQuantity" -> UpdateItemQuantityStart(input, instance, e)

\* the awaited call of the tool function in `frame` ended with `cmp`: the
\* function runs on to its next await or to its end
ToolResume(frame, cmp, instance, e) ==
    CASE frame.fn = "searchProducts" -> Finish(frame, SearchFinish(cmp), instance)
      [] frame.fn = "getListItems" ->
            Finish(frame, GetListItemsFinish(frame.listId, cmp), instance)
      [] frame.fn = "getShoppingLists" ->
            Finish(frame, GetShoppingListsFinish(cmp), instance)
      [] frame.fn = "addToList" ->
            IF frame.pc = "awaitSearch"
            THEN AddToListAfterSearch(frame, cmp, instance, e)
            ELSE AddToListAfterExecute(frame, cmp, instance)
      [] frame.fn = "removeFromList" ->
            IF frame.pc = "awaitGetListItems"
            THEN RemoveFromListAfterList(frame, cmp, instance, e)
            ELSE RemoveFromListAfterExecute(frame, cmp, instance)
      [] frame.fn = "updateItemQuantity" ->
            UpdateItemQuantityAfterExecute(frame, cmp, instance)

----------------------------------------------------------------------------
(* Input schemas.  A failed parse throws a ZodError; its message is the     *)
(* text of its issues, each "path: message", joined with ", ".              *)

Issue(path, message) == path \o SEP_COLON \o message
ZodError(issues) == Thrown("ZodError", "ZodError", Join(issues, SEP_COMMA))
Parsed(issues, value) ==
    IF Len(issues) > 0 THEN Invalid(ZodError(issues))
    ELSE [ok |-> TRUE, value |-> value, error |-> NoError]

\* z.number().int().positive().optional(): the issue of an optional number
PositiveIssue(path, n) ==
    IF IsSome(n) /\ Get(n) <= 0
    \* 'Number must be greater than 0'
    THEN <<Issue(path, <<"N", "u", "m", "b", "e", "r", " ", "m", "u", "s", "t", " ", "b", "e", " ", "g", "r", "e", "a", "t", "e", "r", " ", "t", "h", "a", "n", " ", "0">>)>>
    ELSE <<>>

\* z.string().uuid().optional(): the issue of an optional string
UuidIssue(path, s) ==
    IF IsSome(s) /\ ~IsUuid(Get(s))
    \* 'Invalid uuid'
    THEN <<Issue(path, <<"I", "n", "v", "a", "l", "i", "d", " ", "u", "u", "i", "d">>)>>
    ELSE <<>>

\* a required key is missing: 'Required'
RequiredIssue(path) == <<Issue(path, <<"R", "e", "q", "u", "i", "r", "e", "d">>)>>

P_searchTerm == <<"s", "e", "a", "r", "c", "h", "T", "e", "r", "m">>
P_maxResults == <<"m", "a", "x", "R", "e", "s", "u", "l", "t", "s">>
P_quantity == <<"q", "u", "a", "n", "t", "i", "t", "y">>
P_listId == <<"l", "i", "s", "t", "I", "d">>
P_itemIds == <<"i", "t", "e", "m", "I", "d", "s">>

\* SearchProductsInputSchema.parse
SearchProductsInputSchema(args) ==
    Parsed((IF ~IsSome(args.searchTerm) THEN RequiredIssue(P_searchTerm)
            ELSE IF Len(Get(args.searchTerm)) < 1
            \* 'Search term cannot be empty'
            THEN <<Issue(P_searchTerm, <<"S", "e", "a", "r", "c", "h", " ", "t", "e", "r", "m", " ", "c", "a", "n", "n", "o", "t", " ", "b", "e", " ", "e", "m", "p", "t", "y">>)>>
            ELSE <<>>)
           \o PositiveIssue(P_maxResults, args.maxResults),
           [searchTerm |-> args.searchTerm,
            maxResults |-> IF IsSome(args.maxResults)
                           THEN Get(args.maxResults) ELSE 10])

\* AddToListInputSchema.parse: the refinement runs when the object is valid
AddToListInputSchema(args) ==
    LET issues == PositiveIssue(P_quantity, args.quantity)
                      \o UuidIssue(P_listId, args.listId)
    IN Parsed(IF Len(issues) = 0 /\ ~TruthyStr(args.productId)
                 /\ ~TruthyStr(args.searchTerm)
              THEN <<Issue(<<>>, MSG_EITHER_PRODUCT)>> ELSE issues,
              [productId |-> args.productId,
               searchTerm |-> args.searchTerm,
               quantity |-> IF IsSome(args.quantity) THEN Get(args.quantity) ELSE 1,
               listId |-> args.listId])

\* GetListItemsInputSchema.parse
GetListItemsInputSchema(args) ==
    Parsed(UuidIssue(P_listId, args.listId), [listId |-> args.listId])

\* RemoveFromListInputSchema.parse: the refinement runs when the object is valid
RemoveFromListInputSchema(args) ==
    LET issues ==
            (IF IsSome(args.itemIds)
                /\ \E i \in 1..Len(Get(args.itemIds)) : ~IsUuid(Get(args.itemIds)[i])
             THEN UuidIssue(P_itemIds, Some(<<>>)) ELSE <<>>)
            \o UuidIssue(P_listId, args.listId)
    IN Parsed(IF Len(issues) = 0 /\ ~IsSome(args.itemIds)
                 /\ ~TruthyStr(args.productName)
              THEN <<Issue(<<>>, MSG_EITHER_ITEMS)>> ELSE issues,
              [itemIds |-> args.itemIds,
               productName |-> args.productName,
               listId |-> args.listId])

----------------------------------------------------------------------------
(* The call-tool handlers: heb-shopping-list server, allrecipes index *)

TOOL_SEARCH == <<"h", "e", "b", "_", "s", "e", "a", "r", "c", "h", "_", "p", "r", "o", "d", "u", "c", "t", "s">>
TOOL_ADD == <<"h", "e", "b", "_", "a", "d", "d", "_", "t", "o", "_", "l", "i", "s", "t">>
TOOL_LISTS == <<"h", "e", "b", "_", "g", "e", "t", "_", "s", "h", "o", "p", "p", "i", "n", "g", "_", "l", "i", "s", "t", "s">>
TOOL_ITEMS == <<"h", "e", "b", "_", "g", "e", "t", "_", "l", "i", "s", "t", "_", "i", "t", "e", "m", "s">>
TOOL_REMOVE == <<"h", "e", "b", "_", "r", "e", "m", "o", "v", "e", "_", "f", "r", "o", "m", "_", "l", "i", "s", "t">>
TOOL_SEARCH_RECIPES == <<"s", "e", "a", "r", "c", "h", "_", "r", "e", "c", "i", "p", "e", "s">>
TOOL_GET_RECIPE == <<"g", "e", "t", "_", "r", "e", "c", "i", "p", "e">>

\* new Error(`Unknown tool: ${name}`)
UnknownTool(name) == Thrown("Error", "Error", <<"U", "n", "k", "n", "o", "w", "n", " ", "t", "o", "o", "l", ":", " ">> \o name)

\* heb server lines 133-202: the handler from the request to the first await
\* of the tool function, or to the throw that its catch block receives
HEBCallTool(name, args, instance, e) ==
    CASE name = TOOL_SEARCH ->
            LET input == SearchProductsInputSchema(args) IN
            IF ~input.ok THEN Finish(NoFrame, Throw(input.error), instance)
            ELSE ToolStart("searchProducts", input.value, instance, e)
      [] name = TOOL_ADD ->
            LET input == AddToListInputSchema(args) IN
            IF ~input.ok THEN Finish(NoFrame, Throw(input.error), instance)
            ELSE ToolStart("addToList", input.value, instance, e)
      [] name = TOOL_LISTS -> ToolStart("getShoppingLists", args, instance, e)
      [] name = TOOL_ITEMS ->
            LET input == GetListItemsInputSchema(args) IN
            IF ~input.ok THEN Finish(NoFrame, Throw(input.error), instance)
            ELSE ToolStart("getListItems", input.value, instance, e)
      [] name = TOOL_REMOVE ->
            LET input == RemoveFromListInputSchema(args) IN
            IF ~input.ok THEN Finish(NoFrame, Throw(input.error), instance)
            ELSE ToolStart("removeFromList", input.value, instance, e)
      [] OTHER -> Finish(NoFrame, Throw(UnknownTool(name)), instance)

\* what the caller of an invocation receives
NoResult == [kind |-> "none", isError |-> FALSE, text |-> <<>>, json |-> None,
    error |-> NoError]
\* a call-tool result: content[0].text, either a message or the JSON text
\* of `json`, and the isError flag
ToolResult(isError, text, json) == [kind |-> "result", isError |-> isError,
    text |-> text, json |-> json, error |-> NoError]
\* the invocation raised: the promise is rejected with `error`
Raised(error) == [kind |-> "raised", isError |-> FALSE, text |-> <<>>,
    json |-> None, error |-> error]
\* a function called directly returned `value`
Returned(value) == [kind |-> "returned", isError |-> FALSE, text |-> <<>>,
    json |-> Some(value), error |-> NoError]

\* the process has ended: its exit status and what it wrote to stderr
Exited(code, stderr) == [kind |-> "exit", isError |-> FALSE, text |-> stderr,
    json |-> None, error |-> NoError, code |-> code]

\* heb server lines 139-215: the handler's result for the tool function's end
HEBCallToolResult(fn, cmp) ==
    IF cmp.kind = "throw"
    \* `Error: ${errorMessage}`
    THEN ToolResult(TRUE, <<"E", "r", "r", "o", "r", ":", " ">> \o ErrorText(cmp.error), None)
    ELSE IF fn \in {"addToList", "removeFromList"}
    THEN ToolResult(FALSE, cmp.value.message, None)
    ELSE ToolResult(FALSE, <<>>, Some(cmp.value))

\* SearchRecipesSchema.parse
SearchRecipesSchema(args) ==
    Parsed((IF ~IsSome(args.query) THEN RequiredIssue(<<"q", "u", "e", "r", "y">>) ELSE <<>>)
           \o (IF IsSome(args.limit) /\ Get(args.limit) < 1
               \* 'Number must be greater than or equal to 1'
               THEN <<Issue(<<"l", "i", "m", "i", "t">>,
                   <<"N", "u", "m", "b", "e", "r", " ", "m", "u", "s", "t", " ", "b", "e", " ", "g", "r", "e", "a", "t", "e", "r", " ", "t", "h", "a", "n", " ", "o", "r", " ", "e", "q", "u", "a", "l", " ", "t", "o", " ", "1">>)>>
               ELSE IF IsSome(args.limit) /\ Get(args.limit) > 50
               \* 'Number must be less than or equal to 50'
               THEN <<Issue(<<"l", "i", "m", "i", "t">>,
                   <<"N", "u", "m", "b", "e", "r", " ", "m", "u", "s", "t", " ", "b", "e", " ", "l", "e", "s", "s", " ", "t", "h", "a", "n", " ", "o", "r", " ", "e", "q", "u", "a", "l", " ", "t", "o", " ", "5", "0">>)>>
               ELSE <<>>),
           [query |-> args.query, limit |-> args.limit])

\* GetRecipeSchema.parse
GetRecipeSchema(args) ==
    Parsed(IF ~IsSome(args.recipeUrl) THEN RequiredIssue(<<"r", "e", "c", "i", "p", "e", "U", "r", "l">>)
           ELSE <<>>,
           [recipeUrl |-> args.recipeUrl])

\* allrecipes index lines 83-112: the handler from the request to the await of
\* the tool function (which awaits fetchHtml at once), or to the throw that
\* its catch block receives
AllRecipesCallTool(name, args) ==
    CASE name = TOOL_SEARCH_RECIPES ->
            LET input == SearchRecipesSchema(args) IN
            IF ~input.ok THEN Finish(NoFrame, Throw(input.error), None)
            ELSE [tool |-> [Frame("searchRecipes",
                               [query |-> Get(input.value.query),
                                limit |-> IF IsSome(input.value.limit)
                                          THEN Get(input.value.limit) ELSE 10])
                            EXCEPT !.pc = "awaitFetchHtml"],
                  request |-> None, cmp |-> Pending, client |-> None]
      [] name = TOOL_GET_RECIPE ->
            LET input == GetRecipeSchema(args) IN
            IF ~input.ok THEN Finish(NoFrame, Throw(input.error), None)
            ELSE [tool |-> [Frame("getRecipe", input.value)
                            EXCEPT !.pc = "awaitFetchHtml"],
                  request |-> None, cmp |-> Pending, client |-> None]
      [] OTHER -> Finish(NoFrame, Throw(UnknownTool(name)), None)

\* allrecipes index lines 88-120: the handler's end for the tool function's
\* end; its catch block throws
AllRecipesCallToolResult(cmp) ==
    IF cmp.kind = "return" THEN ToolResult(FALSE, <<>>, Some(cmp.value))
    ELSE IF cmp.error.cls = "ZodError"
    \* `Invalid arguments: ${...}`
    THEN Raised(Thrown("Error", "Error",
             <<"I", "n", "v", "a", "l", "i", "d", " ", "a", "r", "g", "u", "m", "e", "n", "t", "s", ":", " ">> \o cmp.error.message))
    ELSE Raised(cmp.error)

\* fetchHtml: `HTTP ${response.status}: ${response.statusText} for URL: ${url}`
FetchHtmlError(status, statusText, url) == Thrown("Error", "Error",
    <<"H", "T", "T", "P", " ">> \o NumToStr(status) \o SEP_COLON \o statusText
        \o <<" ", "f", "o", "r", " ", "U", "R", "L", ":", " ">> \o url)

BASE_URL == <<"h", "t", "t", "p", "s", ":", "/", "/", "w", "w", "w", ".", "a", "l", "l", "r", "e", "c", "i", "p", "e", "s", ".", "c", "o", "m">>

\* encodeURIComponent: letters, digits and - _ . ! ~ * ' ( ) are kept, a
\* space becomes %20 (the other characters of the model's queries do not occur)
RECURSIVE encodeURIComponent(_)
encodeURIComponent(s) ==
    IF Len(s) = 0 THEN <<>>
    ELSE (IF s[1] = " " THEN <<"%", "2", "0">> ELSE <<s[1]>>)
         \o encodeURIComponent(Tail(s))

\* recipeIdOrUrl.startsWith('http')
StartsWithHttp(s) == Len(s) >= 4 /\ SubSeq(s, 1, 4) = <<"h", "t", "t", "p">>

\* the URL that searchRecipes or getRecipe hands to fetchHtml
FetchHtmlUrl(frame) ==
    IF frame.fn = "searchRecipes"
    THEN BASE_URL \o <<"/", "s", "e", "a", "r", "c", "h", "?", "q", "=">> \o encodeURIComponent(frame.input.query)
    ELSE IF StartsWithHttp(Get(frame.input.recipeUrl))
    THEN Get(frame.input.recipeUrl)
    ELSE BASE_URL \o <<"/", "r", "e", "c", "i", "p", "e", "/">> \o Get(frame.input.recipeUrl)

----------------------------------------------------------------------------
(* The inputs of the model: requests, and what the upstream answers *)

\* 'a1b2c3d4-e5f6-7890-abcd-ef1234567890'
UUID_LIST == <<"a", "1", "b", "2", "c", "3", "d", "4", "-", "e", "5", "f", "6", "-", "7", "8", "9", "0", "-", "a", "b", "c", "d", "-", "e", "f", "1", "2", "3", "4", "5", "6", "7", "8", "9", "0">>
\* 'B2C3D4E5-F6A7-8901-BCDE-F12345678901'
UUID_DEFAULT == <<"B", "2", "C", "3", "D", "4", "E", "5", "-", "F", "6", "A", "7", "-", "8", "9", "0", "1", "-", "B", "C", "D", "E", "-", "F", "1", "2", "3", "4", "5", "6", "7", "8", "9", "0", "1">>
\* '11111111-2222-3333-4444-555555555555'
UUID_ITEM == <<"1", "1", "1", "1", "1", "1", "1", "1", "-", "2", "2", "2", "2", "-", "3", "3", "3", "3", "-", "4", "4", "4", "4", "-", "5", "5", "5", "5", "5", "5", "5", "5", "5", "5", "5", "5">>
\* '66666666-7777-8888-9999-000000000000'
UUID_ITEM2 == <<"6", "6", "6", "6", "6", "6", "6", "6", "-", "7", "7", "7", "7", "-", "8", "8", "8", "8", "-", "9", "9", "9", "9", "-", "0", "0", "0", "0", "0", "0", "0", "0", "0", "0", "0", "0">>
NOT_UUID == <<"n", "o", "t", "-", "a", "-", "u", "u", "i", "d">>
TERM_EGGS == <<"e", "g", "g", "s">>
NAME_EGGS == <<"H", "E", "B", " ", "O", "r", "g", "a", "n", "i", "c", " ", "L", "a", "r", "g", "e", " ", "E", "g", "g", "s">>
NAME_MILK == <<"W", "h", "o", "l", "e", " ", "M", "i", "l", "k">>

ListIdInputs == {None, Some(UUID_LIST), Some(NOT_UUID)}
SearchTermInputs == {None, Some(<<" ", " ">>), Some(TERM_EGGS)}
ProductIdInputs == {None, Some(<<"1", "2", "3", "4", "5">>), Some(<<"1", "2", "a">>)}
ItemIdsInputs == {None, Some(<<>>), Some(<<UUID_ITEM>>), Some(<<NOT_UUID>>)}
ProductNameInputs == {None, Some(<<>>), Some(<<"E", "G", "G">>)}

\* the arguments of call-tool requests, by tool
SearchArguments == [searchTerm : SearchTermInputs \cup {Some(<<>>)},
                    maxResults : {None, Some(0), Some(5)}]
AddArguments == [productId : ProductIdInputs, searchTerm : SearchTermInputs,
                 quantity : {None, Some(0), Some(2)}, listId : ListIdInputs]
ItemsArguments == [listId : ListIdInputs]
RemoveArguments == [itemIds : ItemIdsInputs, productName : ProductNameInputs,
                    listId : ListIdInputs]
NoArguments == [none |-> TRUE]

\* the inputs of tool functions called directly, by function; maxResults 0
\* stands for a falsy maxResults
SearchInputs == [searchTerm : SearchTermInputs, maxResults : {0 - 1, 0, 5}]
AddInputs == [productId : ProductIdInputs, searchTerm : SearchTermInputs,
              quantity : {0, 1, 2}, listId : ListIdInputs]
RemoveInputs == RemoveArguments
UpdateInputs == [itemId : {UUID_ITEM}, quantity : {1, 3}, listId : ListIdInputs]

\* the arguments of call-tool requests to the allrecipes server
SearchRecipesArguments == [query : {None, Some(<<"p", "i", "e">>),
                                    Some(<<"a", " ", "b">>)},
                           limit : {None, Some(0), Some(5), Some(51)}]
GetRecipeArguments == [recipeUrl : {None, Some(<<"1", "2", "3">>),
    \* 'https://www.allrecipes.com/recipe/12345/test/'
    Some(<<"h", "t", "t", "p", "s", ":", "/", "/", "w", "w", "w", ".", "a", "l", "l", "r", "e", "c", "i", "p", "e", "s", ".", "c", "o", "m", "/", "r", "e", "c", "i", "p", "e", "/", "1", "2", "3", "4", "5", "/", "t", "e", "s", "t", "/">>)}]

\* the values of HEB_DEFAULT_LIST_ID
DefaultListIds == {None, Some(UUID_DEFAULT), Some(NOT_UUID)}

\* the status lines the upstream answers with
StatusTexts == {
    [status |-> 200, statusText |-> <<"O", "K">>],
    [status |-> 204, statusText |-> <<"N", "o", " ", "C", "o", "n", "t", "e", "n", "t">>],
    [status |-> 304, statusText |-> <<"N", "o", "t", " ", "M", "o", "d", "i", "f", "i", "e", "d">>],
    [status |-> 401, statusText |-> <<"U", "n", "a", "u", "t", "h", "o", "r", "i", "z", "e", "d">>],
    [status |-> 403, statusText |-> <<"F", "o", "r", "b", "i", "d", "d", "e", "n">>],
    [status |-> 404, statusText |-> <<"N", "o", "t", " ", "F", "o", "u", "n", "d">>],
    [status |-> 429, statusText |-> <<"T", "o", "o", " ", "M", "a", "n", "y", " ", "R", "e", "q", "u", "e", "s", "t", "s">>],
    [status |-> 500, statusText |-> <<"I", "n", "t", "e", "r", "n", "a", "l", " ", "S", "e", "r", "v", "e", "r", " ", "E", "r", "r", "o", "r">>]}

\* what a fetch rejects with when the connection fails
FetchRejections == {
    \* 'fetch failed'
    Thrown("TypeError", "TypeError", <<"f", "e", "t", "c", "h", " ", "f", "a", "i", "l", "e", "d">>),
    \* 'network error occurred'
    Thrown("Error", "Error", <<"n", "e", "t", "w", "o", "r", "k", " ", "e", "r", "r", "o", "r", " ", "o", "c", "c", "u", "r", "r", "e", "d">>),
    \* 'connect ECONNREFUSED'
    Thrown("Error", "Error", <<"c", "o", "n", "n", "e", "c", "t", " ", "E", "C", "O", "N", "N", "R", "E", "F", "U", "S", "E", "D">>),
    \* a thrown value that is no Error: 'string error'
    Thrown("NonError", "", <<"s", "t", "r", "i", "n", "g", " ", "e", "r", "r", "o", "r">>)}

\* what the fetch rejects with once the controller has aborted
AbortError == Thrown("DOMException", "AbortError",
    \* 'This operation was aborted'
    <<"T", "h", "i", "s", " ", "o", "p", "e", "r", "a", "t", "i", "o", "n", " ", "w", "a", "s", " ", "a", "b", "o", "r", "t", "e", "d">>)

\* what response.json() rejects with
JsonRejections == {
    \* 'Unexpected token < in JSON at position 0'
    Thrown("SyntaxError", "SyntaxError", <<"U", "n", "e", "x", "p", "e", "c", "t", "e", "d", " ", "t", "o", "k", "e", "n", " ", "<", " ", "i", "n", " ", "J", "S", "O", "N", " ", "a", "t", " ", "p", "o", "s", "i", "t", "i", "o", "n", " ", "0">>)}

\* the messages of upstream GraphQL errors
GraphQLMessages == {
    <<"S", "o", "m", "e", "t", "h", "i", "n", "g", " ", "w", "e", "n", "t", " ", "w", "r", "o", "n", "g">>,
    <<"U", "n", "a", "u", "t", "h", "o", "r", "i", "z", "e", "d", " ", "a", "c", "c", "e", "s", "s">>,
    <<"U", "s", "e", "r", " ", "i", "s", " ", "U", "N", "A", "U", "T", "H", "E", "N", "T", "I", "C", "A", "T", "E", "D">>}

\* the sequences over `S` of length 1..n
SeqsUpTo(S, n) == UNION {[1..k -> S] : k \in 1..n}

\* the non-empty errors arrays
ErrorArrays == SeqsUpTo({[message |-> m] : m \in GraphQLMessages}, MaxErrors)

\* a data object: each key the tools read is absent or present
NoData == [productSearchItems |-> None, getShoppingListsV2 |-> None,
    getShoppingListV2 |-> None, addShoppingListItemsV2 |-> None,
    deleteShoppingListItemsV2 |-> None, updateShoppingListItemV2 |-> None]

\* upstream search items: a full one, one with a non-numeric id and no
\* optional parts, one without inventory
SearchItemSamples == {
    [id |-> <<"1", "2", "3", "4", "5">>, fullDisplayName |-> NAME_EGGS,
     SKUs |-> Some(<<[contextPrices |-> Some(<<
                          [context |-> "CURBSIDE", salePrice |-> Some([amount |-> 429])],
                          [context |-> "ONLINE", salePrice |-> Some([amount |-> 399])]>>),
                      customerFriendlySize |-> Some("12 ct")]>>),
     productImageUrls |-> Some(<<[url |-> "small.jpg", size |-> "SMALL"],
                                 [url |-> "medium.jpg", size |-> "MEDIUM"]>>),
     brand |-> Some([name |-> "HEB"]),
     inventory |-> Some([inventoryState |-> "IN_STOCK"])],
    [id |-> <<"s", "k", "u", "-", "9">>, fullDisplayName |-> NAME_MILK,
     SKUs |-> None, productImageUrls |-> None, brand |-> None,
     inventory |-> Some([inventoryState |-> "UNKNOWN"])],
    [id |-> <<"7">>, fullDisplayName |-> NAME_MILK,
     SKUs |-> Some(<<>>), productImageUrls |-> Some(<<>>), brand |-> None,
     inventory |-> None]}

\* upstream list items: two full ones and one without its product
ListItemSamples == {
    [id |-> UUID_ITEM, quantity |-> 2, checked |-> FALSE,
     product |-> Some([id |-> <<"1", "2", "3", "4", "5">>,
                       fullDisplayName |-> NAME_EGGS,
                       productImageUrls |-> Some(<<[url |-> "large.jpg",
                                                    size |-> "LARGE"]>>)]),
     itemPrice |-> Some([salePrice |-> 399])],
    [id |-> UUID_ITEM2, quantity |-> 1, checked |-> TRUE,
     product |-> Some([id |-> <<"7">>, fullDisplayName |-> NAME_MILK,
                       productImageUrls |-> None]),
     itemPrice |-> None],
    [id |-> UUID_ITEM2, quantity |-> 1, checked |-> FALSE, product |-> None,
     itemPrice |-> None]}

ListSummary == [id |-> UUID_LIST, name |-> <<"W", "e", "e", "k", "l", "y">>,
    totalItemCount |-> 15, created |-> Some("2024-01-01T00:00:00Z"),
    updated |-> None]

ItemArrays(S) == {<<>>} \cup SeqsUpTo(S, MaxItems)

\* the data objects the upstream answers an operation with
DataObjects(operationName) ==
    {NoData} \cup
    CASE operationName = "productSearchItems" ->
            {[NoData EXCEPT !.productSearchItems = Some([searchGrid |-> None])]}
            \cup {[NoData EXCEPT !.productSearchItems =
                      Some([searchGrid |-> Some([items |-> Some(items)])])] :
                  items \in ItemArrays(SearchItemSamples)}
      [] operationName = "getShoppingListsV2" ->
            {[NoData EXCEPT !.getShoppingListsV2 = Some([lists |-> None])],
             [NoData EXCEPT !.getShoppingListsV2 =
                 Some([lists |-> Some(<<ListSummary>>)])]}
      [] operationName = "getShoppingListV2" ->
            {[NoData EXCEPT !.getShoppingListV2 =
                 Some([id |-> UUID_LIST, name |-> ListSummary.name,
                       created |-> None, updated |-> None, itemPage |-> None])]}
            \cup {[NoData EXCEPT !.getShoppingListV2 =
                      Some([id |-> UUID_LIST, name |-> ListSummary.name,
                            created |-> ListSummary.created, updated |-> None,
                            itemPage |-> Some([items |-> Some(items),
                                thisPage |-> Some([totalCount |-> Len(items)])])])] :
                  items \in ItemArrays(ListItemSamples)}
      [] operationName = "addToShoppingListV2" ->
            {[NoData EXCEPT !.addShoppingListItemsV2 = Some(ListSummary)]}
      [] operationName = "deleteShoppingListItems" ->
            {[NoData EXCEPT !.deleteShoppingListItemsV2 = Some(ListSummary)]}
      [] operationName = "updateShoppingListItem" ->
            {[NoData EXCEPT !.updateShoppingListItemV2 = Some(ListSummary)]}
      [] OTHER -> {}

\* the envelopes the upstream answers an operation with: data of any JSON
\* type without errors, and errors beside null data or a data object
Envelopes(operationName) ==
    {[errors |-> errors, data |-> data] :
        errors \in {None, Some(<<>>)},
        data \in {Undefined, JsonNull, JsonFalse, JsonZero, JsonEmptyString}
                 \cup {JsonObject(o) : o \in DataObjects(operationName)}}
    \cup {[errors |-> Some(errors), data |-> data] :
        errors \in ErrorArrays, data \in {JsonNull, JsonObject(NoData)}}

----------------------------------------------------------------------------
(* The AllRecipes client: allrecipes *)

\* a || b for optional strings: the empty string is falsy
OrElse(a, b) == IF TruthyStr(a) THEN a ELSE b

\* the digits of a decimal fraction without its trailing zeros
RECURSIVE StripZeros(_)
StripZeros(s) ==
    IF Len(s) > 0 /\ s[Len(s)] = "0" THEN StripZeros(SubSeq(s, 1, Len(s) - 1))
    ELSE s

\* a JavaScript number with a decimal fraction, or NaN
Float(negative, whole, fraction) ==
    [isNaN |-> FALSE, negative |-> negative, whole |-> whole, fraction |-> fraction]
FloatNaN == [isNaN |-> TRUE, negative |-> FALSE, whole |-> 0, fraction |-> <<>>]

\* parseFloat: leading white space, a sign, digits, a point and digits; NaN
\* when neither run of digits is there (exponents and 'Infinity' are not
\* among the texts of the model)
parseFloat(text) ==
    LET t == TrimStart(text)
        negative == Len(t) > 0 /\ t[1] = "-"
        signed == Len(t) > 0 /\ t[1] \in {"-", "+"}
        rest == IF signed THEN Tail(t) ELSE t
        whole == DigitPrefix(rest)
        after == SubSeq(rest, Len(whole) + 1, Len(rest))
        fraction == IF Len(after) > 0 /\ after[1] = "."
                    THEN DigitPrefix(Tail(after)) ELSE <<>>
    IN IF Len(whole) = 0 /\ Len(fraction) = 0 THEN FloatNaN
       ELSE Float(negative, DigitsValue(whole), StripZeros(fraction))

\* '/recipe/'
RECIPE_PATH == <<"/", "r", "e", "c", "i", "p", "e", "/">>

\* the digits that /\/recipe\/(\d+)\// captures when it matches at `i`
RecipeIdAt(url, i) ==
    IF i + 7 <= Len(url) /\ SubSeq(url, i, i + 7) = RECIPE_PATH
    THEN LET digits == DigitPrefix(SubSeq(url, i + 8, Len(url)))
             next == i + 8 + Len(digits)
         IN IF Len(digits) > 0 /\ next <= Len(url) /\ url[next] = "/"
            THEN Some(digits) ELSE None
    ELSE None

\* url.match(/\/recipe\/(\d+)\//): idMatch[1] of the leftmost match, if any
RecipeIdMatch(url) ==
    LET starts == {i \in 1..Len(url) : IsSome(RecipeIdAt(url, i))} IN
    IF starts = {} THEN None
    ELSE RecipeIdAt(url, CHOOSE i \in starts : \A j \in starts : i <= j)

\* reviewText.match(/(\d+)/): the leftmost run of digits, if any
RECURSIVE DigitsMatch(_)
DigitsMatch(text) ==
    IF Len(text) = 0 THEN None
    ELSE IF text[1] \in Range(Digits) THEN Some(DigitPrefix(text))
    ELSE DigitsMatch(Tail(text))

\* titleText.slice(0, titleText.length / 2)
FirstHalf(titleText) == SubSeq(titleText, 1, Len(titleText) \div 2)

\* searchRecipes lines 393-399: the title of a card from the text of its
\* title elements
Title(text) ==
    LET titleText == Trim(text) IN
    IF Includes(titleText, FirstHalf(titleText)) THEN FirstHalf(titleText)
    ELSE titleText

\* a card element of the search page: its href and what the selectors of
\* searchRecipes find inside it
Card(href, titleText, dataSrc, src, dataRating, ratingText, reviewText, summary) ==
    [href |-> href, titleText |-> titleText, dataSrc |-> dataSrc, src |-> src,
     dataRating |-> dataRating, ratingText |-> ratingText,
     reviewText |-> reviewText, summary |-> summary]

\* searchRecipes lines 380-430: what one card adds to the results
CardResults(card) ==
    IF ~TruthyStr(card.href) THEN <<>>
    ELSE LET url == Get(card.href)
             idMatch == RecipeIdMatch(url)
             title == Title(card.titleText)
             ratingText == OrElse(card.dataRating, Some(Trim(card.ratingText)))
             reviewMatch == DigitsMatch(card.reviewText)
             description == Trim(card.summary)
         IN IF ~IsSome(idMatch) THEN <<>>
            ELSE IF Len(title) = 0 THEN <<>>
            ELSE <<[id |-> Get(idMatch),
                    title |-> title,
                    url |-> IF StartsWithHttp(url) THEN url ELSE BASE_URL \o url,
                    imageUrl |-> OrElse(card.dataSrc, card.src),
                    rating |-> IF TruthyStr(ratingText)
                               THEN Some(parseFloat(Get(ratingText))) ELSE None,
                    reviewCount |-> IF IsSome(reviewMatch)
                                    THEN Some(parseInt(Get(reviewMatch))) ELSE None,
                    description |-> IF Len(description) > 0
                                    THEN Some(description) ELSE None]>>

\* a faulty loop over the cards: the limit is tested after the push
RECURSIVE EachCardLimitAfter(_, _, _)
EachCardLimitAfter(cards, limit, results) ==
    IF Len(cards) = 0 THEN results
    ELSE LET pushed == results \o CardResults(Head(cards)) IN
         IF Len(pushed) > limit THEN pushed
         ELSE EachCardLimitAfter(Tail(cards), limit, pushed)

\* searchRecipes lines 379-430: the loop over the cards, which ends when
\* `results.length >= limit`
RECURSIVE EachCard(_, _, _)
EachCard(cards, limit, results) ==
    IF Len(cards) = 0 \/ Len(results) >= limit THEN results
    ELSE EachCard(Tail(cards), limit, results \o CardResults(Head(cards)))

\* searchRecipes after fetchHtml: the results for the page
SearchRecipesResults(html, limit) == EachCard(html.cards, limit, <<>>)

\* the '@type' of a JSON-LD item: absent, a string, or an array of strings
TypeAbsent == [kind |-> "absent", names |-> <<>>]
TypeString(name) == [kind |-> "string", names |-> <<name>>]
TypeArray(names) == [kind |-> "array", names |-> names]

\* the aggregateRating of a JSON-LD object
AggregateRating(ratingValue, reviewCount) ==
    [ratingValue |-> ratingValue, reviewCount |-> reviewCount]

\* a value inside parsed JSON-LD: null, an object, or another value (a
\* number, a string, a nested array), whose properties read as undefined
LdObject(type, name, url, aggregateRating) ==
    [kind |-> "object", type |-> type, name |-> name, url |-> url,
     aggregateRating |-> aggregateRating, recipeInstructions |-> None]
LdNull == [kind |-> "null", type |-> TypeAbsent, name |-> None, url |-> None,
           aggregateRating |-> None, recipeInstructions |-> None]

\* an entry of recipeInstructions: a string, an object with or without a
\* text, null, or a number
InstructionString(text) == [kind |-> "string", text |-> Some(text)]
InstructionObject(text) == [kind |-> "object", text |-> text]
InstructionNull == [kind |-> "null", text |-> None]
InstructionNumber == [kind |-> "number", text |-> None]

\* the object with the array `entries` as its recipeInstructions
WithInstructions(data, entries) == [data EXCEPT !.recipeInstructions = Some(entries)]
LdOther == [LdNull EXCEPT !.kind = "other"]

\* a script element of type application/ld+json: whether JSON.parse accepts
\* its content, and the parsed value, an array or one value
ScriptOf(items) == [valid |-> TRUE, isArray |-> FALSE, items |-> items]
ScriptArray(items) == [valid |-> TRUE, isArray |-> TRUE, items |-> items]
ScriptInvalid == [valid |-> FALSE, isArray |-> FALSE, items |-> <<>>]

\* extractJsonLd lines 340-345 and 349-355: the test of an item's '@type'
TypeIs(item, type) ==
    IF item.type.kind = "array" THEN type \in Range(item.type.names)
    ELSE item.type.kind = "string" /\ item.type.names[1] = type

\* data.find(...) of extractJsonLd: the first item of the type; reading
\* '@type' of null throws a TypeError, which ends the find
RECURSIVE FindType(_, _)
FindType(items, type) ==
    IF Len(items) = 0 THEN [threw |-> FALSE, found |-> None]
    ELSE IF Head(items).kind = "null" THEN [threw |-> TRUE, found |-> None]
    ELSE IF TypeIs(Head(items), type) THEN [threw |-> FALSE, found |-> Some(Head(items))]
    ELSE FindType(Tail(items), type)

\* extractJsonLd lines 335-360: one turn of the loop, which returns an item
\* or continues, also from the catch block
InScript(script, type) ==
    IF ~script.valid THEN None
    ELSE FindType(script.items, type).found

\* a faulty extractJsonLd: the scan ends at a block that cannot be parsed
RECURSIVE extractJsonLdStopping(_, _)
extractJsonLdStopping(scripts, type) ==
    IF Len(scripts) = 0 THEN None
    ELSE IF ~Head(scripts).valid THEN None
    ELSE IF IsSome(InScript(Head(scripts), type)) THEN InScript(Head(scripts), type)
    ELSE extractJsonLdStopping(Tail(scripts), type)

\* extractJsonLd: the first item of the type in the page's scripts, or null
RECURSIVE extractJsonLd(_, _)
extractJsonLd(scripts, type) ==
    IF Len(scripts) = 0 THEN None
    ELSE IF IsSome(InScript(Head(scripts), type)) THEN InScript(Head(scripts), type)
    ELSE extractJsonLd(Tail(scripts), type)

\* getRecipe lines 441-450: the id of the recipe
RecipeId(recipeIdOrUrl) ==
    IF StartsWithHttp(recipeIdOrUrl)
    THEN LET idMatch == RecipeIdMatch(recipeIdOrUrl) IN
         IF IsSome(idMatch) THEN Get(idMatch) ELSE recipeIdOrUrl
    ELSE recipeIdOrUrl

\* `${BASE_URL}/recipe/${recipeId}`
RecipeUrl(recipeId) == BASE_URL \o RECIPE_PATH \o recipeId

\* data.aggregateRating?.ratingValue and ?.reviewCount
RatingField(data, key) ==
    IF IsSome(data.aggregateRating) THEN Get(data.aggregateRating)[key] ELSE None

\* parseRecipeFromJsonLd lines 474-483: the loop over recipeInstructions;
\* reading `instruction.text` of null throws a TypeError
RECURSIVE Instructions(_, _)
Instructions(entries, instructions) ==
    IF Len(entries) = 0 THEN [threw |-> FALSE, instructions |-> instructions]
    ELSE LET instruction == Head(entries) IN
         IF instruction.kind = "string"
         THEN Instructions(Tail(entries), Append(instructions, Get(instruction.text)))
         ELSE IF instruction.kind = "null"
         THEN [threw |-> TRUE, instructions |-> instructions]
         ELSE IF TruthyStr(instruction.text)
         THEN Instructions(Tail(entries), Append(instructions, Get(instruction.text)))
         ELSE Instructions(Tail(entries), instructions)

\* the instructions of a JSON-LD object, whose recipeInstructions may not be
\* an array
InstructionsOf(data) ==
    IF IsSome(data.recipeInstructions)
    THEN Instructions(Get(data.recipeInstructions), <<>>)
    ELSE [threw |-> FALSE, instructions |-> <<>>]

\* parseRecipeFromJsonLd without the loop that can throw: id, name, url,
\* rating, reviewCount and instructions of the recipe
RecipeFromJsonLd(recipeId, data) ==
    [id |-> recipeId,
     name |-> IF TruthyStr(data.name) THEN Get(data.name) ELSE <<>>,
     url |-> IF TruthyStr(data.url) THEN Get(data.url) ELSE RecipeUrl(recipeId),
     rating |-> IF TruthyStr(RatingField(data, "ratingValue"))
                THEN Some(parseFloat(Get(RatingField(data, "ratingValue"))))
                ELSE None,
     reviewCount |-> IF TruthyStr(RatingField(data, "reviewCount"))
                     THEN Some(parseInt(Get(RatingField(data, "reviewCount"))))
                     ELSE None,
     instructions |-> InstructionsOf(data).instructions]

\* a TypeError raised by reading a property of null:
\* "Cannot read properties of null (reading 'text')"
TypeErrorReadingNull(property) == Thrown("TypeError", "TypeError",
    <<"C", "a", "n", "n", "o", "t", " ", "r", "e", "a", "d", " ", "p", "r", "o", "p", "e", "r", "t", "i", "e", "s", " ", "o", "f", " ", "n", "u", "l", "l", " ", "(", "r", "e", "a", "d", "i", "n", "g", " ", "'">>
        \o property \o <<"'", ")">>)

\* 'text'
P_text == <<"t", "e", "x", "t">>

\* parseRecipeFromJsonLd: the recipe, or the TypeError of its loop
parseRecipeFromJsonLd(recipeId, data) ==
    IF InstructionsOf(data).threw THEN Throw(TypeErrorReadingNull(P_text))
    ELSE Return(RecipeFromJsonLd(recipeId, data))

\* a faulty filter of the fallback's instructions: ten characters are enough
KeptInstructionFromTen(text) == Len(text) > 0 /\ Len(text) >= 10

\* parseRecipeFromHtml line 536: `text && text.length > 10`
KeptInstruction(text) == Len(text) > 0 /\ Len(text) > 10

\* parseRecipeFromHtml lines 533-537: the loop over the instruction elements
RECURSIVE HtmlInstructions(_)
HtmlInstructions(texts) ==
    IF Len(texts) = 0 THEN <<>>
    ELSE (IF KeptInstruction(Trim(Head(texts))) THEN <<Trim(Head(texts))>> ELSE <<>>)
         \o HtmlInstructions(Tail(texts))

\* parseRecipeFromHtml: id, name, url and instructions of the recipe
parseRecipeFromHtml(recipeId, html) ==
    [id |-> recipeId, name |-> Trim(html.h1), url |-> RecipeUrl(recipeId),
     rating |-> None, reviewCount |-> None,
     instructions |-> HtmlInstructions(html.instructionTexts)]

\* getRecipe after fetchHtml: the recipe for the page
GetRecipeResult(recipeIdOrUrl, html) ==
    LET recipeId == RecipeId(recipeIdOrUrl)
        recipeData == extractJsonLd(html.scripts, "Recipe")
    IN IF IsSome(recipeData) THEN parseRecipeFromJsonLd(recipeId, Get(recipeData))
       ELSE Return(parseRecipeFromHtml(recipeId, html))

\* a page: its cards, its JSON-LD scripts, the text of its first heading and
\* the texts of its instruction elements
Page(cards, scripts, h1) ==
    [cards |-> cards, scripts |-> scripts, h1 |-> h1, instructionTexts |-> <<>>]
WithInstructionTexts(html, texts) == [html EXCEPT !.instructionTexts = texts]

\* 'https://www.allrecipes.com/recipe/12345/chicken-parmesan/'
URL_CHICKEN == <<"h", "t", "t", "p", "s", ":", "/", "/", "w", "w", "w", ".", "a", "l", "l", "r", "e", "c", "i", "p", "e", "s", ".", "c", "o", "m", "/", "r", "e", "c", "i", "p", "e", "/", "1", "2", "3", "4", "5", "/", "c", "h", "i", "c", "k", "e", "n", "-", "p", "a", "r", "m", "e", "s", "a", "n", "/">>
\* '/recipe/67890/beef-stew/'
PATH_STEW == <<"/", "r", "e", "c", "i", "p", "e", "/", "6", "7", "8", "9", "0", "/", "b", "e", "e", "f", "-", "s", "t", "e", "w", "/">>
\* 'https://www.allrecipes.com/article/best-chicken-recipes/'
URL_ARTICLE == <<"h", "t", "t", "p", "s", ":", "/", "/", "w", "w", "w", ".", "a", "l", "l", "r", "e", "c", "i", "p", "e", "s", ".", "c", "o", "m", "/", "a", "r", "t", "i", "c", "l", "e", "/", "b", "e", "s", "t", "-", "c", "h", "i", "c", "k", "e", "n", "-", "r", "e", "c", "i", "p", "e", "s", "/">>
\* 'https://www.allrecipes.com/recipes/96/salad/'
URL_CATEGORY == <<"h", "t", "t", "p", "s", ":", "/", "/", "w", "w", "w", ".", "a", "l", "l", "r", "e", "c", "i", "p", "e", "s", ".", "c", "o", "m", "/", "r", "e", "c", "i", "p", "e", "s", "/", "9", "6", "/", "s", "a", "l", "a", "d", "/">>

\* the cards of the search page: the title is written twice in each
CARD_CHICKEN == Card(Some(URL_CHICKEN), <<"C", "h", "i", "c", "k", "e", "n", " ", "P", "a", "r", "m", "e", "s", "a", "n", "C", "h", "i", "c", "k", "e", "n", " ", "P", "a", "r", "m", "e", "s", "a", "n">>,
    Some(<<"c", "h", "i", "c", "k", "e", "n", ".", "j", "p", "g">>), None, Some(<<"4", ".", "5">>), <<>>,
    <<"1", "2", "3", " ", "R", "a", "t", "i", "n", "g", "s">>, <<"A", " ", "c", "l", "a", "s", "s", "i", "c", " ", "d", "i", "s", "h", ".">>)
CARD_STEW == Card(Some(PATH_STEW), <<"B", "e", "e", "f", " ", "S", "t", "e", "w", "B", "e", "e", "f", " ", "S", "t", "e", "w">>,
    None, Some(<<"s", "t", "e", "w", ".", "j", "p", "g">>), None, <<" ", "4", ".", "2", " ">>, <<"8", "5">>, <<>>)
CARD_ARTICLE == Card(Some(URL_ARTICLE), <<"B", "e", "s", "t", " ", "C", "h", "i", "c", "k", "e", "n", "B", "e", "s", "t", " ", "C", "h", "i", "c", "k", "e", "n">>,
    None, None, None, <<>>, <<>>, <<>>)
CARD_CATEGORY == Card(Some(URL_CATEGORY), <<"S", "a", "l", "a", "d", "S", "a", "l", "a", "d">>,
    None, None, None, <<>>, <<>>, <<>>)

\* the JSON-LD objects of the recipe page
LD_ARTICLE == LdObject(TypeString("Article"), Some(<<"B", "e", "s", "t", " ", "C", "h", "i", "c", "k", "e", "n">>), None, None)
LD_RECIPE == LdObject(TypeString("Recipe"), Some(<<"C", "h", "i", "c", "k", "e", "n", " ", "P", "a", "r", "m", "e", "s", "a", "n">>),
    Some(URL_CHICKEN), Some(AggregateRating(Some(<<"4", ".", "5">>), Some(<<"1", "2", "3">>))))
LD_NEWS_RECIPE == LdObject(TypeArray(<<"NewsArticle", "Recipe">>),
    Some(<<"B", "e", "e", "f", " ", "S", "t", "e", "w">>), None, None)

\* the pages that the site answers with
SEARCH_PAGE == Page(<<CARD_ARTICLE, CARD_CHICKEN, CARD_CATEGORY, CARD_STEW>>, <<>>,
    <<"S", "e", "a", "r", "c", "h">>)
RECIPE_PAGE == Page(<<>>, <<ScriptInvalid, ScriptArray(<<LD_ARTICLE, LD_RECIPE>>)>>,
    <<" ", "C", "h", "i", "c", "k", "e", "n", " ", "P", "a", "r", "m", "e", "s", "a", "n", " ">>)
PLAIN_PAGE == Page(<<>>, <<>>, <<"B", "e", "e", "f", " ", "S", "t", "e", "w">>)
Pages == {SEARCH_PAGE, RECIPE_PAGE, PLAIN_PAGE}

----------------------------------------------------------------------------
(* The state machine *)

NoCall == [server |-> "none", name |-> <<>>, args |-> NoArguments]

\* 'HEB_SAT_COOKIE'
N_HEB_SAT_COOKIE == <<"H", "E", "B", "_", "S", "A", "T", "_", "C", "O", "O", "K", "I", "E">>
\* 'HEB_JSESSIONID'
N_HEB_JSESSIONID == <<"H", "E", "B", "_", "J", "S", "E", "S", "S", "I", "O", "N", "I", "D">>
\* 'HEB_REESE84'
N_HEB_REESE84 == <<"H", "E", "B", "_", "R", "E", "E", "S", "E", "8", "4">>
\* 'HEB_STORE_ID'
N_HEB_STORE_ID == <<"H", "E", "B", "_", "S", "T", "O", "R", "E", "_", "I", "D">>
\* ' is required'
SFX_IS_REQUIRED == <<" ", "i", "s", " ", "r", "e", "q", "u", "i", "r", "e", "d">>
\* 'Required': zod's message for a key that is not set
MSG_REQUIRED == <<"R", "e", "q", "u", "i", "r", "e", "d">>
\* 'Environment validation failed:\n'
PFX_ENVIRONMENT == <<"E", "n", "v", "i", "r", "o", "n", "m", "e", "n", "t", " ", "v", "a",
    "l", "i", "d", "a", "t", "i", "o", "n", " ", "f", "a", "i", "l", "e", "d", ":", "\n">>
\* '\n\nPlease ensure all required environment variables are set in your Claude
\* Desktop configuration.'
SFX_ENVIRONMENT == <<"\n", "\n", "P", "l", "e", "a", "s", "e", " ", "e", "n", "s", "u",
    "r", "e", " ", "a", "l", "l", " ", "r", "e", "q", "u", "i", "r", "e", "d", " ", "e",
    "n", "v", "i", "r", "o", "n", "m", "e", "n", "t", " ", "v", "a", "r", "i", "a", "b",
    "l", "e", "s", " ", "a", "r", "e", " ", "s", "e", "t", " ", "i", "n", " ", "y", "o",
    "u", "r", " ", "C", "l", "a", "u", "d", "e", " ", "D", "e", "s", "k", "t", "o", "p",
    " ", "c", "o", "n", "f", "i", "g", "u", "r", "a", "t", "i", "o", "n", ".">>
\* 'Fatal error: '
PFX_FATAL == <<"F", "a", "t", "a", "l", " ", "e", "r", "r", "o", "r", ":", " ">>

\* process.env: each variable is set to a string or is not set
ProcessEnv(sat, jsessionid, reese84, storeId, defaultListId) == [
    HEB_SAT_COOKIE |-> sat,
    HEB_JSESSIONID |-> jsessionid,
    HEB_REESE84 |-> reese84,
    HEB_STORE_ID |-> storeId,
    HEB_DEFAULT_LIST_ID |-> defaultListId]

\* a process environment with the four required variables set
Environment(defaultListId) == ProcessEnv(
    Some(<<"t", "e", "s", "t", "-", "s", "a", "t">>),
    Some(<<"t", "e", "s", "t", "-", "s", "e", "s", "s", "i", "o", "n">>),
    Some(<<"t", "e", "s", "t", "-", "r", "e", "e", "s", "e">>),
    Some(<<"1", "2", "3">>),
    defaultListId)

\* process environments without a required variable: one not set, one empty,
\* none set
IncompleteEnvironments == {
    [Environment(None) EXCEPT !.HEB_SAT_COOKIE = None],
    [Environment(Some(UUID_DEFAULT)) EXCEPT !.HEB_STORE_ID = Some(<<>>)],
    [Environment(None) EXCEPT !.HEB_JSESSIONID = Some(<<>>), !.HEB_REESE84 = None],
    ProcessEnv(None, None, None, None, None)}

\* z.string().min(1, name ' is required'): the issues of one variable
MinOneIssue(name, value) ==
    IF ~IsSome(value) THEN <<Issue(name, MSG_REQUIRED)>>
    ELSE IF Len(Get(value)) < 1 THEN <<Issue(name, name \o SFX_IS_REQUIRED)>>
    ELSE <<>>

\* envSchema.safeParse(process.env)
envSchema(processEnv) ==
    LET issues == MinOneIssue(N_HEB_SAT_COOKIE, processEnv.HEB_SAT_COOKIE)
                  \o MinOneIssue(N_HEB_JSESSIONID, processEnv.HEB_JSESSIONID)
                  \o MinOneIssue(N_HEB_REESE84, processEnv.HEB_REESE84)
                  \o MinOneIssue(N_HEB_STORE_ID, processEnv.HEB_STORE_ID)
    IN IF Len(issues) > 0 THEN [success |-> FALSE, errors |-> issues, data |-> <<>>]
       ELSE [success |-> TRUE, errors |-> <<>>,
             data |-> [HEB_SAT_COOKIE |-> Get(processEnv.HEB_SAT_COOKIE),
                       HEB_JSESSIONID |-> Get(processEnv.HEB_JSESSIONID),
                       HEB_REESE84 |-> Get(processEnv.HEB_REESE84),
                       HEB_STORE_ID |-> Get(processEnv.HEB_STORE_ID),
                       HEB_DEFAULT_LIST_ID |-> processEnv.HEB_DEFAULT_LIST_ID]]

\* loadEnvironment: the validated environment, or the Error it throws
loadEnvironment(processEnv) ==
    LET parsed == envSchema(processEnv) IN
    IF ~parsed.success
    THEN Invalid(Thrown("Error", "Error",
             PFX_ENVIRONMENT \o Join(parsed.errors, <<"\n">>) \o SFX_ENVIRONMENT))
    ELSE Valid(parsed.data)

\* getEnvironment validates process.env again on every call
getEnvironment(processEnv) == loadEnvironment(processEnv)

\* the environment a tool function reads in a serving process
Configured(processEnv) == getEnvironment(processEnv).value

\* server.connect(transport) resolves, or rejects
ConnectOutcomes == {Return(Undefined),
                    \* 'write EPIPE'
                    Throw(Thrown("Error", "Error",
                                 <<"w", "r", "i", "t", "e", " ", "E", "P", "I", "P", "E">>))}

\* the process goes on serving requests
Serving == [exited |-> FALSE, code |-> 0, stderr |-> <<>>]
\* console.error('Fatal error:', message); process.exit(code)
FatalExit(code, error) == [exited |-> TRUE, code |-> code,
                           stderr |-> PFX_FATAL \o error.message]

\* a faulty main: the server is started without loadEnvironment
mainWithoutValidation(processEnv, connect) ==
    IF connect.kind = "throw" THEN FatalExit(1, connect.error)
    ELSE Serving

\* main: loadEnvironment, then runServer; an error of either is fatal
main(processEnv, connect) ==
    LET loaded == loadEnvironment(processEnv) IN
    IF ~loaded.ok THEN FatalExit(1, loaded.error)
    ELSE IF connect.kind = "throw" THEN FatalExit(1, connect.error)
    ELSE Serving

\* a function applied on its own: its name, its input and, once applied,
\* its output
Probe(fn, input) == [fn |-> fn, input |-> input, applied |-> FALSE,
                     output |-> Undefined]
NoProbe == Probe("none", Undefined)

Init ==
    /\ env \in {Environment(d) : d \in DefaultListIds} \cup IncompleteEnvironments
    /\ clientInstance = None
    /\ phase = "starting"
    /\ entry = "none"
    /\ call = NoCall
    /\ tool = NoFrame
    /\ exec = ExecIdle
    /\ calls = <<>>
    /\ result = NoResult
    /\ probe = NoProbe

\* what the caller receives when the invocation ends with `cmp`
Outcome(how, server, fn, cmp) ==
    IF how = "handler" /\ server = "heb" THEN HEBCallToolResult(fn, cmp)
    ELSE IF how = "handler" THEN AllRecipesCallToolResult(cmp)
    ELSE IF cmp.kind = "throw" THEN Raised(cmp.error)
    ELSE Returned(cmp.value)

\* an HTTP request issued by the `seq`-th call of execute on `client`: the
\* cookie header is the client's cookieString
Issued(seq, request, client) == [seq |-> seq, request |-> request,
                                 cookie |-> Get(client).cookieString,
                                 state |-> "inflight", data |-> Undefined]

\* an invocation begins with `step`: it is suspended at an await or has ended
Begin(how, request, step) ==
    /\ phase = "idle"
    /\ entry' = how
    /\ call' = request
    /\ tool' = step.tool
    /\ UNCHANGED probe
    /\ IF IsSome(step.request)
       THEN /\ exec' = ExecBegin(Get(step.request), 1)
            /\ calls' = <<Issued(1, Get(step.request), step.client)>>
            /\ phase' = "running"
            /\ result' = NoResult
       ELSE /\ exec' = ExecIdle
            /\ calls' = <<>>
            /\ phase' = IF step.cmp.kind = "none" THEN "running" ELSE "done"
            /\ result' = IF step.cmp.kind = "none" THEN NoResult
                         ELSE Outcome(how, request.server, step.tool.fn, step.cmp)

\* the process starts: main runs to the point where the server listens, or to
\* process.exit
Main(connect) ==
    /\ phase = "starting"
    /\ LET outcome == main(env, connect) IN
       /\ phase' = IF outcome.exited THEN "exited" ELSE "idle"
       /\ result' = IF outcome.exited THEN Exited(outcome.code, outcome.stderr)
                    ELSE NoResult
    /\ UNCHANGED <<env, clientInstance, entry, call, tool, exec, calls, probe>>

\* a call-tool request arrives at the heb server
CallToolHEB(name, args) ==
    LET step == HEBCallTool(name, args, clientInstance, Configured(env)) IN
    /\ Begin("handler", [server |-> "heb", name |-> name, args |-> args], step)
    /\ clientInstance' = step.client
    /\ UNCHANGED env

\* a call-tool request arrives at the allrecipes server
CallToolAllRecipes(name, args) ==
    /\ Begin("handler", [server |-> "allrecipes", name |-> name, args |-> args],
             AllRecipesCallTool(name, args))
    /\ UNCHANGED <<env, clientInstance>>

\* a tool function is called directly
InvokeTool(fn, input) ==
    LET step == ToolStart(fn, input, clientInstance, Configured(env)) IN
    /\ Begin("tool", NoCall, step)
    /\ clientInstance' = step.client
    /\ UNCHANGED env

\* getClient().execute(request) is called directly
InvokeExecute(request) ==
    LET instance == getClient(clientInstance, Configured(env)) IN
    /\ Begin("execute", NoCall, [tool |-> NoFrame, request |-> Some(request),
                                 cmp |-> Pending, client |-> instance])
    /\ clientInstance' = instance
    /\ UNCHANGED env

\* the log after execute moved from `exec` to `ex`
Logged(ex) ==
    LET issued == IF ex.fetchCount > exec.fetchCount
                  THEN Append(calls, Issued(ex.seq, ex.request, clientInstance))
                  ELSE calls
    IN IF ex.pc = "done"
       THEN [issued EXCEPT ![Len(issued)].state =
                               IF ex.outcome.kind = "return" THEN "returned"
                               ELSE "threw",
                           ![Len(issued)].data = ex.outcome.value]
       ELSE issued

\* execute moves to `ex`
ExecMoves(ex) ==
    /\ exec' = ex
    /\ calls' = Logged(ex)
    /\ UNCHANGED <<env, clientInstance, phase, entry, call, tool, result, probe>>

Suspended == phase = "running" /\ exec.pc \in {"awaitFetch", "awaitJson"}

\* the upstream answers the request with a status line
FetchResponds(st) ==
    /\ Suspended /\ exec.pc = "awaitFetch" /\ ~exec.aborted
    /\ ExecMoves(ExecOnResponse(exec, st.status, st.statusText))

\* the connection fails
FetchRejects(error) ==
    /\ Suspended /\ exec.pc = "awaitFetch" /\ ~exec.aborted
    /\ ExecMoves(ExecThrow(exec, error))

\* the 10 seconds pass before the timer is cleared
TimerFires ==
    /\ Suspended /\ exec.timerArmed
    /\ ExecMoves(ExecOnTimer(exec))

\* the aborted request rejects the promise execute awaits
AbortRejects ==
    /\ Suspended /\ exec.aborted
    /\ ExecMoves(ExecThrow(exec, AbortError))

\* the body arrives and parses
JsonResolves ==
    /\ Suspended /\ exec.pc = "awaitJson" /\ ~exec.aborted
    /\ \E envelope \in Envelopes(exec.request.operationName) :
           ExecMoves(ExecOnJson(exec, envelope))

\* the body does not parse
JsonRejects(error) ==
    /\ Suspended /\ exec.pc = "awaitJson" /\ ~exec.aborted
    /\ ExecMoves(ExecThrow(exec, error))

\* execute has ended: its caller runs on to the next await or to its end
Continue ==
    /\ phase = "running" /\ exec.pc = "done"
    /\ LET step == IF entry = "execute"
                   THEN Finish(NoFrame, exec.outcome, clientInstance)
                   ELSE ToolResume(tool, exec.outcome, clientInstance,
                                   Configured(env))
       IN /\ tool' = step.tool
          /\ clientInstance' = step.client
          /\ IF IsSome(step.request)
             THEN /\ exec' = ExecBegin(Get(step.request), exec.seq + 1)
                  /\ calls' = Append(calls, Issued(exec.seq + 1, Get(step.request),
                                                 step.client))
                  /\ UNCHANGED <<phase, result>>
             ELSE /\ phase' = "done"
                  /\ result' = Outcome(entry, call.server, tool.fn, step.cmp)
                  /\ UNCHANGED <<exec, calls>>
    /\ UNCHANGED <<env, entry, call, probe>>

\* the allrecipes tool function ends with `cmp`, and the handler with it
RecipeEnds(cmp) ==
    /\ tool' = [tool EXCEPT !.pc = "done", !.cmp = cmp]
    /\ phase' = "done"
    /\ result' = AllRecipesCallToolResult(cmp)
    /\ UNCHANGED <<env, clientInstance, entry, call, exec, calls, probe>>

\* fetchHtml: the site answers with a status line
HtmlResponds(st) ==
    /\ phase = "running" /\ tool.pc = "awaitFetchHtml"
    /\ IF ResponseOk(st.status)
       THEN /\ tool' = [tool EXCEPT !.pc = "awaitText"]
            /\ UNCHANGED <<env, clientInstance, phase, entry, call, exec, calls,
                           result, probe>>
       ELSE RecipeEnds(Throw(FetchHtmlError(st.status, st.statusText,
                                            FetchHtmlUrl(tool))))

\* fetchHtml: the connection fails
HtmlRejects(error) ==
    /\ phase = "running" /\ tool.pc = "awaitFetchHtml"
    /\ RecipeEnds(Throw(error))

\* fetchHtml: the page text arrives and the tool function extracts its
\* result from it
HtmlText(page) ==
    /\ phase = "running" /\ tool.pc = "awaitText"
    /\ RecipeEnds(IF tool.fn = "searchRecipes"
                  THEN Return(SearchRecipesResults(page, tool.input.limit))
                  ELSE GetRecipeResult(Get(tool.input.recipeUrl), page))

\* the caller has its result; the server waits for the next request
Reset ==
    /\ phase = "done"
    /\ phase' = "idle"
    /\ entry' = "none"
    /\ call' = NoCall
    /\ tool' = NoFrame
    /\ exec' = ExecIdle
    /\ calls' = <<>>
    /\ result' = NoResult
    /\ UNCHANGED <<env, clientInstance, probe>>

Next ==
    \/ \E connect \in ConnectOutcomes : Main(connect)
    \/ \E args \in SearchArguments : CallToolHEB(TOOL_SEARCH, args)
    \/ \E args \in AddArguments : CallToolHEB(TOOL_ADD, args)
    \/ \E args \in ItemsArguments : CallToolHEB(TOOL_ITEMS, args)
    \/ \E args \in RemoveArguments : CallToolHEB(TOOL_REMOVE, args)
    \/ \E name \in {TOOL_LISTS, <<"h", "e", "b", "_", "u", "p", "d", "a", "t", "e", "_", "i", "t", "e", "m", "_", "q", "u", "a", "n", "t", "i", "t", "y">>} :
           CallToolHEB(name, NoArguments)
    \/ \E args \in SearchRecipesArguments :
           CallToolAllRecipes(TOOL_SEARCH_RECIPES, args)
    \/ \E args \in GetRecipeArguments : CallToolAllRecipes(TOOL_GET_RECIPE, args)
    \/ CallToolAllRecipes(<<"n", "o", "n", "e", "x", "i", "s", "t", "e", "n", "t", "_", "t", "o", "o", "l">>, NoArguments)
    \/ \E input \in SearchInputs : InvokeTool("searchProducts", input)
    \/ \E input \in AddInputs : InvokeTool("addToList", input)
    \/ \E input \in ItemsArguments : InvokeTool("getListItems", input)
    \/ \E input \in RemoveInputs : InvokeTool("removeFromList", input)
    \/ \E input \in UpdateInputs : InvokeTool("updateItemQuantity", input)
    \/ InvokeTool("getShoppingLists", NoArguments)
    \/ \E request \in {createGetShoppingListsQuery,
                       createGetShoppingListQuery(UUID_LIST)} :
           InvokeExecute(request)
    \/ \E st \in StatusTexts : FetchResponds(st)
    \/ \E error \in FetchRejections : FetchRejects(error)
    \/ TimerFires
    \/ AbortRejects
    \/ JsonResolves
    \/ \E error \in JsonRejections : JsonRejects(error)
    \/ Continue
    \/ \E st \in StatusTexts : HtmlResponds(st)
    \/ \E error \in FetchRejections : HtmlRejects(error)
    \/ \E page \in Pages : HtmlText(page)
    \/ Reset

Spec == Init /\ [][Next]_vars

----------------------------------------------------------------------------
(* Properties *)

\* C1: on both servers every call-tool invocation ends with a result given
\* back to the caller, a success payload or an error indicator; the handler
\* itself never raises.
C1_HandlerNeverRaises ==
    (phase = "done" /\ entry = "handler") => result.kind = "result"

\* C2: a tool function that ends with a ValidationError has issued no
\* network call earlier in the invocation.
C2_ValidationBeforeNetwork ==
    (phase = "done" /\ tool.cmp.kind = "throw"
        /\ tool.cmp.error.cls = "ValidationError") => Len(calls) = 0

\* C3: each invocation of execute issues exactly one HTTP request whatever
\* its outcome: while it runs and after it has ended, the requests issued so
\* far are one per call of execute, and this call's count is one.
C3_OneRequestPerExecute ==
    exec.pc # "idle" =>
        /\ exec.fetchCount = 1
        /\ Len(calls) = exec.seq
        /\ \A i \in 1..Len(calls) : calls[i].seq = i

\* an execute that failed by timeout after its one request
C3_Witness ==
    /\ exec.pc = "done" /\ exec.caught = AbortError
    /\ exec.fetchCount = 1 /\ Len(calls) = 1

CompositeAdd ==
    /\ tool.fn = "addToList"
    /\ ~TruthyStr(tool.input.productId) /\ TruthyStr(tool.input.searchTerm)

CompositeRemove ==
    /\ tool.fn = "removeFromList"
    /\ ~IsSome(tool.input.itemIds) /\ TruthyStr(tool.input.productName)

\* the ids of the products in the data of a search
FoundProductIds(data) ==
    LET items == SearchItems(data) IN {items[i].id : i \in 1..Len(items)}

\* the ids of the items in the data of a list
ListedItemIds(data) ==
    LET list == Field(data, "getShoppingListV2")
        page == IF IsSome(list) THEN Get(list).itemPage ELSE None
        items == IF IsSome(page) /\ IsSome(Get(page).items)
                 THEN Get(Get(page).items) ELSE <<>>
    IN {items[i].id : i \in 1..Len(items)}

\* C4: an invocation issues at most one network call, or two on the
\* composite paths (add by searchTerm, remove by productName); the second is
\* issued only after the first returned successfully, its payload comes from
\* the first call's result, and only the last call can be in flight.
C4_SequentialCalls ==
    /\ Len(calls) <= 2
    /\ \A i \in 1..Len(calls) : calls[i].state = "inflight" => i = Len(calls)
    /\ Len(calls) = 2 =>
          /\ calls[1].state = "returned"
          /\ CompositeAdd \/ CompositeRemove
          /\ CompositeAdd =>
                LET listItems == calls[2].request.variables.input.listItems IN
                /\ calls[1].request.operationName = "productSearchItems"
                /\ calls[2].request.operationName = "addToShoppingListV2"
                /\ Len(listItems) > 0
                /\ \A i \in 1..Len(listItems) :
                       listItems[i].item.productId \in FoundProductIds(calls[1].data)
          /\ CompositeRemove =>
                LET itemIds == calls[2].request.variables.input.itemIds IN
                /\ calls[1].request.operationName = "getShoppingListV2"
                /\ calls[2].request.operationName = "deleteShoppingListItems"
                /\ Len(itemIds) > 0
                /\ \A i \in 1..Len(itemIds) :
                       itemIds[i] \in ListedItemIds(calls[1].data)

\* a composite add whose second call has returned
C4_Witness ==
    /\ CompositeAdd /\ Len(calls) = 2
    /\ calls[1].state = "returned" /\ calls[2].state = "returned"

\* the status of the response execute holds
Status == Get(exec.response).status

\* C5: for a response that is not 2xx execute raises AuthenticationError on
\* 401 and 403, RateLimitError on 429 and otherwise a NetworkError whose
\* message carries the status code and the reason phrase; the body is not
\* parsed and no data is returned.
C5_StatusClassification ==
    (exec.pc = "done" /\ IsSome(exec.response) /\ (Status < 200 \/ Status > 299)) =>
        /\ exec.outcome.kind = "throw"
        /\ ~exec.jsonCalled /\ ~IsSome(exec.result)
        /\ exec.outcome.error.cls =
               IF Status \in {401, 403} THEN "AuthenticationError"
               ELSE IF Status = 429 THEN "RateLimitError"
               ELSE "NetworkError"
        /\ Status \notin {401, 403, 429} =>
               /\ Includes(exec.outcome.error.message, NumToStr(Status))
               /\ Includes(exec.outcome.error.message,
                           Get(exec.response).statusText)

\* an execute ended by a 403 response
C5_Witness ==
    /\ exec.pc = "done" /\ IsSome(exec.response) /\ Status = 403
    /\ exec.outcome.error.cls = "AuthenticationError"

\* the messages of the parsed envelope's errors, joined with ', '
JoinedErrors == Join(ErrorMessages(Get(Get(exec.result).errors)), SEP_COMMA)

HasErrors ==
    /\ IsSome(exec.result) /\ IsSome(Get(exec.result).errors)
    /\ Len(Get(Get(exec.result).errors)) > 0

\* C6: on a 2xx response whose envelope has a non-empty errors array execute
\* raises, whatever data holds: AuthenticationError when the messages joined
\* with ', ' contain 'unauthorized' or 'unauthenticated' in any case,
\* otherwise an HEBError whose message carries the joined messages.
C6_GraphQLErrors ==
    (exec.pc = "done" /\ HasErrors) =>
        /\ exec.outcome.kind = "throw"
        /\ IF Includes(ToLowerCase(JoinedErrors), S_unauthorized)
              \/ Includes(ToLowerCase(JoinedErrors), S_unauthenticated)
           THEN exec.outcome.error.cls = "AuthenticationError"
           ELSE /\ exec.outcome.error.cls = "HEBError"
                /\ Includes(exec.outcome.error.message, JoinedErrors)

\* two errors beside a data object, one of them 'User is UNAUTHENTICATED'
C6_Witness ==
    /\ exec.pc = "done" /\ HasErrors
    /\ Len(Get(Get(exec.result).errors)) = 2
    /\ Get(exec.result).data.t = "object"
    /\ Includes(JoinedErrors, <<"U", "N", "A", "U", "T", "H">>)
    /\ exec.outcome.error.cls = "AuthenticationError"

\* C7: on a 2xx response whose envelope has no errors execute returns data
\* unchanged whenever the envelope holds it, and raises 'No data returned'
\* exactly when it does not.
C7_DataReturnedWhenPresent ==
    (exec.pc = "done" /\ IsSome(exec.result) /\ ~HasErrors) =>
        IF Get(exec.result).data # Undefined
        THEN exec.outcome = Return(Get(exec.result).data)
        ELSE /\ exec.outcome.kind = "throw"
             /\ exec.outcome.error = HEBError(MSG_NO_DATA)

\* the catch block caught a value that is none of the typed errors
CaughtUntyped ==
    exec.pc = "done" /\ exec.caught.cls # "none" /\ ~IsHEBError(exec.caught)

\* the catch block's two network cases: an abort, or an Error whose message
\* contains 'fetch' or 'network'
CaughtAsNetwork ==
    IsError(exec.caught) /\
        (\/ exec.caught.name = "AbortError"
         \/ Includes(exec.caught.message, S_fetch)
         \/ Includes(exec.caught.message, S_network))

\* C8 as stated: every untyped exception in execute becomes an HEBError whose
\* message preserves the original message.
C8_UntypedWrapped ==
    CaughtUntyped =>
        /\ exec.outcome.kind = "throw"
        /\ exec.outcome.error.cls = "HEBError"
        /\ Includes(exec.outcome.error.message, exec.caught.message)

\* C8: an untyped exception in execute that is neither an abort nor an Error
\* whose message contains 'fetch' or 'network' becomes the HEBError
\* 'Unexpected error: ' followed by the original message; an abort becomes
\* the NetworkError 'Request timed out', the others the NetworkError
\* 'Network error', neither keeping the original message.
C8_UntypedWrappedUnlessNetwork ==
    CaughtUntyped =>
        exec.outcome =
            IF ~CaughtAsNetwork
            THEN Throw(HEBError(PFX_UNEXPECTED \o exec.caught.message))
            ELSE IF exec.caught.name = "AbortError"
            THEN Throw(NetworkError(MSG_TIMEOUT))
            ELSE Throw(NetworkError(MSG_NETWORK))

\* the body did not parse: the SyntaxError is wrapped, its message kept
C8_Witness ==
    /\ CaughtUntyped /\ exec.caught.cls = "SyntaxError"
    /\ exec.outcome.error.cls = "HEBError"
    /\ Includes(exec.outcome.error.message, exec.caught.message)

\* C9: every connection failure, the fetch rejecting with anything but the
\* timeout's abort, ends execute with a NetworkError, whatever the message.
C9_ConnectionFailureIsNetworkError ==
    (exec.pc = "done" /\ exec.caught.cls # "none" /\ ~IsSome(exec.response)
        /\ exec.caught.name # "AbortError") =>
        (exec.outcome.kind = "throw" /\ exec.outcome.error.cls = "NetworkError")

\* C10: whenever execute is suspended on network I/O, awaiting the response
\* or reading the body, its 10-second timer is armed.
C10_TimerArmedWhileSuspended ==
    exec.pc \in {"awaitFetch", "awaitJson"} =>
        (exec.timerArmed /\ exec.timerDelay = REQUEST_TIMEOUT_MS) \/ exec.aborted

----------------------------------------------------------------------------
(* Functions applied on their own *)

MaxProducts == 3
MaxQuantity == 3

\* the sequences over `S` of length 0..n
SeqsFrom0(S, n) == {<<>>} \cup SeqsUpTo(S, n)

\* createAddToListQuery: product ids and positive quantities, the
\* quantities shorter than, as long as or longer than the product ids
AddToListQueryInputs ==
    [listId : {UUID_LIST},
     productIds : SeqsFrom0({<<"1", "2", "3", "4", "5">>, <<"7">>}, MaxProducts),
     quantities : SeqsFrom0(1..MaxQuantity, MaxProducts)]

ApplyCreateAddToListQuery ==
    /\ probe.fn = "createAddToListQuery" /\ ~probe.applied
    /\ probe' = [probe EXCEPT !.applied = TRUE,
                     !.output = createAddToListQuery(probe.input.listId,
                                    probe.input.productIds, probe.input.quantities)]
    /\ UNCHANGED <<env, clientInstance, phase, entry, call, tool, exec, calls, result>>

\* the full parts of an upstream search item
FullSKUs == Some(<<[contextPrices |-> Some(<<
                        [context |-> "CURBSIDE", salePrice |-> Some([amount |-> 429])],
                        [context |-> "ONLINE", salePrice |-> Some([amount |-> 399])]>>),
                    customerFriendlySize |-> Some("12 ct")]>>)
FullImages == Some(<<[url |-> "small.jpg", size |-> "SMALL"],
                     [url |-> "medium.jpg", size |-> "MEDIUM"]>>)

\* well-formed search items of every inventory state, one of them
\* unrecognized
InventoryStates == {"IN_STOCK", "LOW_STOCK", "OUT_OF_STOCK", "DISCONTINUED"}
WellFormedSearchItems ==
    {[id |-> id.id, fullDisplayName |-> id.name, SKUs |-> FullSKUs,
      productImageUrls |-> FullImages, brand |-> Some([name |-> "HEB"]),
      inventory |-> Some([inventoryState |-> s])] :
        id \in {[id |-> <<"1", "2", "3", "4", "5">>, name |-> NAME_EGGS],
                [id |-> <<"7">>, name |-> NAME_MILK]},
        s \in InventoryStates}

\* the data of a search response holding `items`
SearchData(items) ==
    [NoData EXCEPT !.productSearchItems =
        Some([searchGrid |-> Some([items |-> Some(items)])])]

MaxImages == 3

\* the arrays of {url, size} entries, absent, empty or of up to MaxImages
\* entries: MEDIUM at any position or nowhere, urls equal, distinct or empty
ImageArrays ==
    {None} \cup {Some(images) :
        images \in SeqsFrom0([url : {"", "a.jpg", "b.jpg"},
                              size : {"SMALL", "MEDIUM"}], MaxImages)}

\* one search item per array of images
ImageSearchItems ==
    {[id |-> <<"7">>, fullDisplayName |-> NAME_MILK, SKUs |-> FullSKUs,
      productImageUrls |-> images, brand |-> None,
      inventory |-> Some([inventoryState |-> "IN_STOCK"])] : images \in ImageArrays}

\* sparse search items: each array and nested object absent or empty
SparseSearchItems ==
    {[id |-> <<"7">>, fullDisplayName |-> NAME_MILK, SKUs |-> skus,
      productImageUrls |-> images, brand |-> brand, inventory |-> inventory] :
        skus \in {None, Some(<<>>),
                  Some(<<[contextPrices |-> None, customerFriendlySize |-> None]>>),
                  Some(<<[contextPrices |-> Some(<<>>),
                          customerFriendlySize |-> None]>>),
                  Some(<<[contextPrices |-> Some(<<[context |-> "ONLINE",
                                                    salePrice |-> None]>>),
                          customerFriendlySize |-> None]>>)},
        images \in {None, Some(<<>>)},
        brand \in {None, Some([name |-> "HEB"])},
        inventory \in {None, Some([inventoryState |-> "IN_STOCK"])}}

\* searchProducts lines 68-91 applied to the data execute returned
SearchResponses ==
    {SearchData(items) : items \in SeqsFrom0(WellFormedSearchItems, MaxItems)}
    \cup {SearchData(<<item>>) : item \in ImageSearchItems}
    \cup {SearchData(<<item>>) : item \in SparseSearchItems}
    \cup {NoData,
          [NoData EXCEPT !.productSearchItems = Some([searchGrid |-> None])],
          [NoData EXCEPT !.productSearchItems =
              Some([searchGrid |-> Some([items |-> None])])]}

ApplySearchProducts ==
    /\ probe.fn = "searchProducts" /\ ~probe.applied
    /\ probe' = [probe EXCEPT !.applied = TRUE,
                     !.output = SearchFinish(Return(JsonObject(probe.input)))]
    /\ UNCHANGED <<env, clientInstance, phase, entry, call, tool, exec, calls, result>>

\* the data of a list response holding `items`
ListData(items) ==
    [NoData EXCEPT !.getShoppingListV2 =
        Some([id |-> UUID_LIST, name |-> ListSummary.name,
              created |-> ListSummary.created, updated |-> None,
              itemPage |-> Some([items |-> Some(items),
                                 thisPage |-> Some([totalCount |-> Len(items)])])])]

\* one list item per array of images
ImageListItems ==
    {[id |-> UUID_ITEM, quantity |-> 2, checked |-> FALSE,
      product |-> Some([id |-> <<"7">>, fullDisplayName |-> NAME_MILK,
                        productImageUrls |-> images]),
      itemPrice |-> Some([salePrice |-> 399])] : images \in ImageArrays}

\* sparse list items: the product, its images and the price absent or not
SparseListItems ==
    {[id |-> UUID_ITEM, quantity |-> 1, checked |-> TRUE, product |-> product,
      itemPrice |-> price] :
        product \in {None,
                     Some([id |-> <<"7">>, fullDisplayName |-> NAME_MILK,
                           productImageUrls |-> None])},
        price \in {None, Some([salePrice |-> 399])}}

\* getListItems lines 73-103 applied to the data execute returned
ListResponses ==
    {ListData(<<item>>) : item \in ImageListItems}
    \cup {ListData(<<item>>) : item \in SparseListItems}
    \cup {NoData, ListData(<<>>)}
    \cup {[NoData EXCEPT !.getShoppingListV2 =
              Some([id |-> UUID_LIST, name |-> ListSummary.name,
                    created |-> None, updated |-> None, itemPage |-> page])] :
          page \in {None, Some([items |-> None, thisPage |-> None])}}

ApplyGetListItems ==
    /\ probe.fn = "getListItems" /\ ~probe.applied
    /\ probe' = [probe EXCEPT !.applied = TRUE,
                     !.output = GetListItemsFinish(UUID_LIST,
                                    Return(JsonObject(probe.input)))]
    /\ UNCHANGED <<env, clientInstance, phase, entry, call, tool, exec, calls, result>>

MaxLists == 2

\* list summaries: the dates absent or present
ListSummaries ==
    [id : {UUID_LIST, UUID_DEFAULT},
     name : {ListSummary.name},
     totalItemCount : {0, 15},
     created : {None, Some("2024-01-01T00:00:00Z")},
     updated : {None, Some("2024-02-02T00:00:00Z")}]

\* getShoppingLists lines 28-36 applied to the data execute returned
ListsResponses ==
    {NoData, [NoData EXCEPT !.getShoppingListsV2 = Some([lists |-> None])]}
    \cup {[NoData EXCEPT !.getShoppingListsV2 = Some([lists |-> Some(lists)])] :
          lists \in SeqsFrom0(ListSummaries, MaxLists)}

ApplyGetShoppingLists ==
    /\ probe.fn = "getShoppingLists" /\ ~probe.applied
    /\ probe' = [probe EXCEPT !.applied = TRUE,
                     !.output = GetShoppingListsFinish(Return(JsonObject(probe.input)))]
    /\ UNCHANGED <<env, clientInstance, phase, entry, call, tool, exec, calls, result>>

MaxChars == 3

\* the strings of up to MaxChars characters over a blank, a digit and a letter
ShortStrings == SeqsFrom0({" ", "1", "a"}, MaxChars)

\* validateNonEmpty: undefined and the short strings
NonEmptyInputs == {None} \cup {Some(s) : s \in ShortStrings}

\* validatePositive: integers around zero, and NaN
PositiveInputs == {Num(n) : n \in (0 - 2)..3} \cup {NaN}

\* validateProductId: the short strings and longer ids
ProductIdStrings ==
    ShortStrings \cup {<<"1", "2", "3", "4", "5">>,
                       <<" ", " ", "1", "2", "3", "4", "5", "\t", "\n">>,
                       <<"1", "2", " ", "4", "5">>, <<"-", "5">>, <<"1", ".", "5">>}

\* validateListId: UUIDs in lower and upper case, bare and padded, and
\* strings that miss the pattern by one character
ListIdStrings ==
    {UUID_LIST, UUID_DEFAULT, NOT_UUID, <<>>,
     <<" ">> \o UUID_LIST \o <<" ", "\n">>,
     <<"\t">> \o UUID_DEFAULT,
     [UUID_LIST EXCEPT ![1] = "g"],
     [UUID_LIST EXCEPT ![9] = "0"],
     [UUID_LIST EXCEPT ![10] = "-"],
     [UUID_LIST EXCEPT ![20] = " "],
     SubSeq(UUID_LIST, 1, 35),
     UUID_LIST \o <<"0">>,
     <<"x">> \o UUID_LIST}

\* a validator applied, and applied again to the value it returned
Twice(first, again) == [first |-> first, again |-> again]

ApplyValidateNonEmpty ==
    /\ probe.fn = "validateNonEmpty" /\ ~probe.applied
    /\ LET first == validateNonEmpty(probe.input, FIELD_SEARCH_TERM) IN
       probe' = [probe EXCEPT !.applied = TRUE,
                     !.output = Twice(first,
                         IF first.ok
                         THEN validateNonEmpty(Some(first.value), FIELD_SEARCH_TERM)
                         ELSE first)]
    /\ UNCHANGED <<env, clientInstance, phase, entry, call, tool, exec, calls, result>>

ApplyValidatePositive ==
    /\ probe.fn = "validatePositive" /\ ~probe.applied
    /\ LET first == validatePositiveNumber(probe.input, FIELD_QUANTITY) IN
       probe' = [probe EXCEPT !.applied = TRUE,
                     !.output = Twice(first,
                         IF first.ok
                         THEN validatePositiveNumber(first.value, FIELD_QUANTITY)
                         ELSE first)]
    /\ UNCHANGED <<env, clientInstance, phase, entry, call, tool, exec, calls, result>>

ApplyValidateProductId ==
    /\ probe.fn = "validateProductId" /\ ~probe.applied
    /\ LET first == validateProductId(probe.input) IN
       probe' = [probe EXCEPT !.applied = TRUE,
                     !.output = Twice(first,
                         IF first.ok THEN validateProductId(first.value)
                         ELSE first)]
    /\ UNCHANGED <<env, clientInstance, phase, entry, call, tool, exec, calls, result>>

ApplyValidateListId ==
    /\ probe.fn = "validateListId" /\ ~probe.applied
    /\ LET first == validateListId(probe.input) IN
       probe' = [probe EXCEPT !.applied = TRUE,
                     !.output = Twice(first,
                         IF first.ok THEN validateListId(first.value)
                         ELSE first)]
    /\ UNCHANGED <<env, clientInstance, phase, entry, call, tool, exec, calls, result>>

MaxCards == 3
MaxLimit == 3
MaxTitle == 4
MaxScripts == 2

\* a recipe card with the title text `titleText` and nothing else
TitleCard(titleText) ==
    Card(Some(PATH_STEW), titleText, None, None, None, <<>>, <<>>, <<>>)

\* the cards that pages are composed of: recipes behind an absolute and a
\* relative link, an article, a category, a recipe without a title, a card
\* without a link
CardSamples == {CARD_CHICKEN, CARD_STEW, CARD_ARTICLE, CARD_CATEGORY,
                TitleCard(<<" ">>), [CARD_CHICKEN EXCEPT !.href = None]}

\* the title texts: every text of up to MaxTitle characters over two letters
\* and a blank, and longer ones
TitleTexts ==
    SeqsFrom0({"a", "b", " "}, MaxTitle)
        \cup {<<"C", "h", "i", "c", "k", "e", "n", " ", "P", "a", "r", "m", "e", "s", "a", "n", "C", "h", "i", "c", "k", "e", "n", " ", "P", "a", "r", "m", "e", "s", "a", "n">>, <<"P", "a", "n", "c", "a", "k", "e", "s">>,
               <<" ", "B", "e", "e", "f", " ", "S", "t", "e", "w", "B", "e", "e", "f", " ", "S", "t", "e", "w", " ">>, <<"B", "a", "n", "a", "n", "a", " ", "B", "r", "e", "a", "d">>}

\* a recipe card with what the rating and review selectors find
RatingCard(dataRating, ratingText, reviewText) ==
    Card(Some(URL_CHICKEN), <<"P", "i", "e", "P", "i", "e">>, None, None, dataRating, ratingText,
         reviewText, <<>>)
RatingCards ==
    {RatingCard(dataRating, ratingText, reviewText) :
        dataRating \in {None, Some(<<>>), Some(<<"4", ".", "5">>), Some(<<"N", "/", "A">>)},
        ratingText \in {<<>>, <<" ", "4", ".", "2", "0", " ">>, <<"N", "e", "w">>, <<"R", "a", "t", "e", "d", " ", "5">>},
        reviewText \in {<<>>, <<"8", "5", " ", "R", "a", "t", "i", "n", "g", "s">>, <<"n", "o", " ", "r", "e", "v", "i", "e", "w", "s", " ", "y", "e", "t">>}}

\* searchRecipes: pages of up to MaxCards cards with every limit up to
\* MaxLimit, and pages of one card
SearchPages ==
    {[html |-> Page(cards, <<>>, <<>>), limit |-> limit] :
        cards \in SeqsFrom0(CardSamples, MaxCards), limit \in 0..MaxLimit}
    \cup {[html |-> Page(<<TitleCard(titleText)>>, <<>>, <<>>), limit |-> 10] :
              titleText \in TitleTexts}
    \cup {[html |-> Page(<<card>>, <<>>, <<>>), limit |-> 10] : card \in RatingCards}

ApplySearchRecipes ==
    /\ probe.fn = "searchRecipes" /\ ~probe.applied
    /\ probe' = [probe EXCEPT !.applied = TRUE,
                     !.output = SearchRecipesResults(probe.input.html,
                                                     probe.input.limit)]
    /\ UNCHANGED <<env, clientInstance, phase, entry, call, tool, exec, calls, result>>

\* the contents of a JSON-LD script: content that is not JSON, one value,
\* or an array
ScriptSamples ==
    {ScriptInvalid, ScriptOf(<<LdNull>>), ScriptOf(<<LdOther>>),
     ScriptOf(<<LD_ARTICLE>>), ScriptOf(<<LD_RECIPE>>), ScriptOf(<<LD_NEWS_RECIPE>>),
     ScriptArray(<<>>), ScriptArray(<<LD_ARTICLE>>),
     ScriptArray(<<LD_ARTICLE, LD_RECIPE>>),
     ScriptArray(<<LD_RECIPE, LD_NEWS_RECIPE>>),
     ScriptArray(<<LD_NEWS_RECIPE, LD_RECIPE>>),
     ScriptArray(<<LdOther, LD_NEWS_RECIPE>>),
     ScriptArray(<<LdNull, LD_RECIPE>>),
     ScriptArray(<<LD_RECIPE, LdNull>>)}

\* a Recipe object with an aggregateRating
RatedRecipes ==
    {LdObject(TypeString("Recipe"), Some(<<"P", "i", "e">>), None, None)}
    \cup {LdObject(TypeString("Recipe"), Some(<<"P", "i", "e">>), None,
                    Some(AggregateRating(ratingValue, reviewCount))) :
              ratingValue \in {None, Some(<<>>), Some(<<"4", ".", "5">>), Some(<<"N", "/", "A">>),
                                Some(<<"0">>)},
              reviewCount \in {None, Some(<<"1", "2", "3">>), Some(<<"m", "a", "n", "y">>)}}

\* getRecipe: an id or a URL, and pages of up to MaxScripts scripts, or of
\* one script with a rated recipe
RecipePages ==
    {[recipeIdOrUrl |-> recipeIdOrUrl,
      html |-> Page(<<>>, scripts, <<" ", "F", "r", "o", "m", " ", "T", "h", "e", " ", "H", "e", "a", "d", "i", "n", "g", " ">>)] :
        recipeIdOrUrl \in {<<"1", "2", "3">>, URL_CHICKEN, URL_ARTICLE},
        scripts \in SeqsFrom0(ScriptSamples, MaxScripts)
                    \cup {<<ScriptOf(<<recipe>>)>> : recipe \in RatedRecipes}}

MaxInstructions == 3

\* the entries of recipeInstructions
InstructionEntries ==
    {InstructionString(<<"M", "i", "x", ".">>), InstructionString(<<>>),
     InstructionObject(Some(<<"B", "a", "k", "e", ".">>)), InstructionObject(Some(<<>>)),
     InstructionObject(None), InstructionNull, InstructionNumber}

\* getRecipe: pages whose one script is a Recipe with up to MaxInstructions
\* entries in recipeInstructions
InstructionPages ==
    {[recipeIdOrUrl |-> URL_CHICKEN,
      html |-> Page(<<>>, <<ScriptOf(<<WithInstructions(LD_RECIPE, entries)>>)>>,
                    <<>>)] :
        entries \in SeqsFrom0(InstructionEntries, MaxInstructions)}

\* 'Short': 5 characters
TEXT_5 == <<"S", "h", "o", "r", "t">>
\* 'Stir well.': 10 characters
TEXT_10 == <<"S", "t", "i", "r", " ", "w", "e", "l", "l", ".">>
\* 'Bake 1 hour': 11 characters
TEXT_11 == <<"B", "a", "k", "e", " ", "1", " ", "h", "o", "u", "r">>
\* 51 characters
TEXT_51 == <<"T", "h", "i", "s", " ", "i", "n", "s", "t", "r", "u", "c", "t", "i", "o", "n", " ", "i", "s", " ", "l", "o", "n", "g", " ", "e", "n", "o", "u", "g", "h", " ", "t", "o", " ", "p", "a", "s", "s", " ", "t", "h", "e", " ", "f", "i", "l", "t", "e", "r", ".">>

\* the texts of the instruction elements, bare and padded with white space
InstructionTexts ==
    {<<>>, <<" ", "\n">>, TEXT_5, TEXT_10, TEXT_11, TEXT_51,
     <<" ">> \o TEXT_10 \o <<" ">>, <<"\n", " ">> \o TEXT_11 \o <<"\t">>}

\* getRecipe: pages without JSON-LD, with up to MaxInstructions instruction
\* elements
FallbackPages ==
    {[recipeIdOrUrl |-> <<"1", "2", "3">>,
      html |-> WithInstructionTexts(Page(<<>>, <<>>, <<"T", "o", "a", "s", "t">>), texts)] :
        texts \in SeqsFrom0(InstructionTexts, MaxInstructions)}

ApplyGetRecipe ==
    /\ probe.fn = "getRecipe" /\ ~probe.applied
    /\ probe' = [probe EXCEPT !.applied = TRUE,
                     !.output = GetRecipeResult(probe.input.recipeIdOrUrl,
                                                probe.input.html)]
    /\ UNCHANGED <<env, clientInstance, phase, entry, call, tool, exec, calls, result>>

ApplyExtractJsonLd ==
    /\ probe.fn = "extractJsonLd" /\ ~probe.applied
    /\ probe' = [probe EXCEPT !.applied = TRUE,
                     !.output = extractJsonLd(probe.input.html.scripts, "Recipe")]
    /\ UNCHANGED <<env, clientInstance, phase, entry, call, tool, exec, calls, result>>

\* the servers are idle; one function is about to be applied to one input
InitFunctions ==
    /\ env = Environment(None)
    /\ clientInstance = None
    /\ phase = "idle"
    /\ entry = "none"
    /\ call = NoCall
    /\ tool = NoFrame
    /\ exec = ExecIdle
    /\ calls = <<>>
    /\ result = NoResult
    /\ \/ \E input \in AddToListQueryInputs :
              probe = Probe("createAddToListQuery", input)
       \/ \E input \in SearchResponses : probe = Probe("searchProducts", input)
       \/ \E input \in ListResponses : probe = Probe("getListItems", input)
       \/ \E input \in ListsResponses : probe = Probe("getShoppingLists", input)
       \/ \E input \in NonEmptyInputs : probe = Probe("validateNonEmpty", input)
       \/ \E input \in PositiveInputs : probe = Probe("validatePositive", input)
       \/ \E input \in ProductIdStrings : probe = Probe("validateProductId", input)
       \/ \E input \in ListIdStrings : probe = Probe("validateListId", input)
       \/ \E input \in SearchPages : probe = Probe("searchRecipes", input)
       \/ \E input \in RecipePages \cup InstructionPages \cup FallbackPages :
              probe = Probe("getRecipe", input)
       \/ \E input \in RecipePages : probe = Probe("extractJsonLd", input)

NextFunctions ==
    \/ ApplyCreateAddToListQuery
    \/ ApplySearchProducts
    \/ ApplyGetListItems
    \/ ApplyGetShoppingLists
    \/ ApplyValidateNonEmpty
    \/ ApplyValidatePositive
    \/ ApplyValidateProductId
    \/ ApplyValidateListId
    \/ ApplySearchRecipes
    \/ ApplyGetRecipe
    \/ ApplyExtractJsonLd

SpecFunctions == InitFunctions /\ [][NextFunctions]_vars
----------------------------------------------------------------------------
(* Concurrent invocations of execute on the shared client *)

\* the callers that invoke getClient().execute(request) concurrently
MaxInvocations == 2
Invocations == 1..MaxInvocations

\* a query and a mutation
ConcurrentRequests == {createGetShoppingListsQuery,
                       createAddToListQuery(UUID_LIST, <<<<"7">>>>, <<1>>)}

\* what the upstream answers the concurrent requests with: one status of
\* each class, one failed connection, and the envelopes without errors whose
\* data is null or an object
ConcurrentStatusTexts == {st \in StatusTexts : st.status \in {200, 401, 500}}
ConcurrentRejections == {error \in FetchRejections : error.cls = "TypeError"}
ConcurrentEnvelopes(operationName) ==
    {envelope \in Envelopes(operationName) :
        /\ envelope.errors = None
        /\ envelope.data \notin {Undefined, JsonFalse, JsonZero, JsonEmptyString}}

\* a faulty timer: the controller is a field of the shared client, so the
\* callback aborts every request in flight
OnTimerOfAll(execs, i) ==
    [j \in DOMAIN execs |->
        IF execs[j].pc \in {"awaitFetch", "awaitJson"} THEN ExecOnTimer(execs[j])
        ELSE execs[j]]

\* lines 35-36: controller and timeoutId are locals of the invocation, and
\* the callback aborts the controller of its own invocation
OnTimerOf(execs, i) == [execs EXCEPT ![i] = ExecOnTimer(execs[i])]

\* the log after invocation `i` moved to `ex`
LoggedOf(i, ex) ==
    IF ex.pc = "done"
    THEN [n \in 1..Len(calls) |->
             IF calls[n].seq = i
             THEN [calls[n] EXCEPT !.state = IF ex.outcome.kind = "return"
                                             THEN "returned" ELSE "threw",
                                   !.data = ex.outcome.value]
             ELSE calls[n]]
    ELSE calls

\* the invocations move to `execs`, where `i` ran
ConcurrentMoves(i, execs) ==
    /\ exec' = execs
    /\ calls' = LoggedOf(i, execs[i])
    /\ UNCHANGED <<env, clientInstance, phase, entry, call, tool, result, probe>>

InitConcurrent ==
    /\ env = Environment(Some(UUID_DEFAULT))
    /\ clientInstance = None
    /\ phase = "running"
    /\ entry = "execute"
    /\ call = NoCall
    /\ tool = NoFrame
    /\ exec = [i \in Invocations |-> ExecIdle]
    /\ calls = <<>>
    /\ result = NoResult
    /\ probe = NoProbe

\* caller `i` calls getClient().execute(request): lines 33-54 up to the await
ExecuteOf(i, request) ==
    /\ exec[i].pc = "idle"
    /\ LET instance == getClient(clientInstance, Configured(env)) IN
       /\ clientInstance' = instance
       /\ exec' = [exec EXCEPT ![i] = ExecBegin(request, i)]
       /\ calls' = Append(calls, Issued(i, request, instance))
    /\ UNCHANGED <<env, phase, entry, call, tool, result, probe>>

\* the upstream answers the request of `i` with a status line
FetchRespondsTo(i, st) ==
    /\ exec[i].pc = "awaitFetch" /\ ~exec[i].aborted
    /\ ConcurrentMoves(i, [exec EXCEPT ![i] =
           ExecOnResponse(exec[i], st.status, st.statusText)])

\* the connection of `i` fails
FetchRejectsOf(i, error) ==
    /\ exec[i].pc = "awaitFetch" /\ ~exec[i].aborted
    /\ ConcurrentMoves(i, [exec EXCEPT ![i] = ExecThrow(exec[i], error)])

\* the 10 seconds of `i` pass before its timer is cleared
TimerFiresOf(i) ==
    /\ exec[i].pc \in {"awaitFetch", "awaitJson"} /\ exec[i].timerArmed
    /\ ConcurrentMoves(i, OnTimerOf(exec, i))

\* the aborted request of `i` rejects the promise it awaits
AbortRejectsOf(i) ==
    /\ exec[i].pc \in {"awaitFetch", "awaitJson"} /\ exec[i].aborted
    /\ ConcurrentMoves(i, [exec EXCEPT ![i] = ExecThrow(exec[i], AbortError)])

\* the body of the response to `i` arrives and parses
JsonResolvesOf(i) ==
    /\ exec[i].pc = "awaitJson" /\ ~exec[i].aborted
    /\ \E envelope \in ConcurrentEnvelopes(exec[i].request.operationName) :
           ConcurrentMoves(i, [exec EXCEPT ![i] = ExecOnJson(exec[i], envelope)])

\* the body of the response to `i` does not parse
JsonRejectsOf(i, error) ==
    /\ exec[i].pc = "awaitJson" /\ ~exec[i].aborted
    /\ ConcurrentMoves(i, [exec EXCEPT ![i] = ExecThrow(exec[i], error)])

NextConcurrent ==
    \/ \E i \in Invocations, request \in ConcurrentRequests : ExecuteOf(i, request)
    \/ \E i \in Invocations, st \in ConcurrentStatusTexts : FetchRespondsTo(i, st)
    \/ \E i \in Invocations, error \in ConcurrentRejections : FetchRejectsOf(i, error)
    \/ \E i \in Invocations : TimerFiresOf(i)
    \/ \E i \in Invocations : AbortRejectsOf(i)
    \/ \E i \in Invocations : JsonResolvesOf(i)
    \/ \E i \in Invocations, error \in JsonRejections : JsonRejectsOf(i, error)

SpecConcurrent == InitConcurrent /\ [][NextConcurrent]_vars


\* the function `fn` has been applied
Applied(fn) == probe.fn = fn /\ probe.applied

\* the quantity of the i-th product: the i-th quantity, or 1 beyond them
QuantityOf(quantities, i) == IF i <= Len(quantities) THEN quantities[i] ELSE 1

\* the quantities of the first n products, summed
RECURSIVE QuantitySum(_, _)
QuantitySum(quantities, n) ==
    IF n = 0 THEN 0 ELSE QuantitySum(quantities, n - 1) + QuantityOf(quantities, n)

\* C11: the listItems of createAddToListQuery(listId, P, Q) are as many as
\* the quantities sum to, a missing quantity counting 1, and hold for each
\* product in input order Q[i] consecutive entries carrying P[i].
C11_QuantityExpansion ==
    Applied("createAddToListQuery") =>
        LET P == probe.input.productIds
            Q == probe.input.quantities
            listItems == probe.output.variables.input.listItems
        IN /\ Len(listItems) = QuantitySum(Q, Len(P))
           /\ \A i \in 1..Len(P) : \A k \in 1..QuantityOf(Q, i) :
                  listItems[QuantitySum(Q, i - 1) + k] = [item |-> [productId |-> P[i]]]

\* three products, the first twice, the second three times, the third
\* without a quantity
C11_Witness ==
    /\ Applied("createAddToListQuery")
    /\ Len(probe.input.productIds) = 3
    /\ probe.input.quantities = <<2, 3>>
    /\ Len(probe.output.variables.input.listItems) = 6

\* the items of the search response the probe holds, when it has them
InputSearchItems ==
    LET psi == probe.input.productSearchItems
        grid == IF IsSome(psi) THEN Get(psi).searchGrid ELSE None
    IN IF IsSome(grid) THEN Get(grid).items ELSE None

\* the response holds its items and every item its inventory
WellFormedSearch ==
    /\ IsSome(InputSearchItems)
    /\ \A i \in 1..Len(Get(InputSearchItems)) :
           IsSome(Get(InputSearchItems)[i].inventory)

\* C12: for a well-formed search response with N entries searchProducts
\* returns N products in the same order, each with the entry's id as
\* productId and its fullDisplayName as name, its availability IN_STOCK or
\* LOW_STOCK for these inventory states and OUT_OF_STOCK for any other.
C12_SearchNormalizer ==
    (Applied("searchProducts") /\ WellFormedSearch) =>
        LET items == Get(InputSearchItems)
            products == probe.output.value
        IN /\ probe.output.kind = "return"
           /\ Len(products) = Len(items)
           /\ \A i \in 1..Len(items) :
                  LET state == Get(items[i].inventory).inventoryState IN
                  /\ products[i].productId = items[i].id
                  /\ products[i].name = items[i].fullDisplayName
                  /\ products[i].availability =
                         IF state \in {"IN_STOCK", "LOW_STOCK"} THEN state
                         ELSE "OUT_OF_STOCK"

\* two products, the first LOW_STOCK, the second of an unrecognized state
C12_Witness ==
    /\ Applied("searchProducts") /\ WellFormedSearch
    /\ Len(probe.output.value) = 2
    /\ probe.output.value[1].availability = "LOW_STOCK"
    /\ Get(Get(InputSearchItems)[2].inventory).inventoryState = "DISCONTINUED"
    /\ probe.output.value[2].availability = "OUT_OF_STOCK"

\* the items of the list response the probe holds, when it has them
InputListItems ==
    LET list == probe.input.getShoppingListV2
        page == IF IsSome(list) THEN Get(list).itemPage ELSE None
    IN IF IsSome(page) THEN Get(page).items ELSE None

\* a normalizer returned: the arrays of images it was given, item by item,
\* and the images it selected
Normalized ==
    /\ probe.applied /\ probe.fn \in {"searchProducts", "getListItems"}
    /\ probe.output.kind = "return"

GivenImages ==
    IF probe.fn = "searchProducts"
    THEN [i \in 1..Len(probe.output.value) |->
             Get(InputSearchItems)[i].productImageUrls]
    ELSE [i \in 1..Len(probe.output.value.items) |->
             Get(Get(InputListItems)[i].product).productImageUrls]

SelectedImages ==
    IF probe.fn = "searchProducts"
    THEN [i \in 1..Len(probe.output.value) |-> probe.output.value[i].imageUrl]
    ELSE [i \in 1..Len(probe.output.value.items) |->
             probe.output.value.items[i].imageUrl]

\* the entries of an array of images, none when it is absent
Entries(images) == IF IsSome(images) THEN Get(images) ELSE <<>>

\* the places of the MEDIUM entries
Mediums(images) == {i \in 1..Len(images) : images[i].size = "MEDIUM"}

\* C13 as stated: in both normalizers the selected image is the url of a
\* MEDIUM entry wherever it stands, without one the url of the first
\* entry, and absent for an empty or absent array.
C13_ImageSelection ==
    Normalized =>
        \A i \in 1..Len(GivenImages) :
            LET images == Entries(GivenImages[i]) IN
            IF Mediums(images) # {}
            THEN \E m \in Mediums(images) : SelectedImages[i] = Some(images[m].url)
            ELSE IF Len(images) > 0 THEN SelectedImages[i] = Some(images[1].url)
            ELSE SelectedImages[i] = None

\* the first MEDIUM entry
FirstMedium(images) == CHOOSE m \in Mediums(images) : \A n \in Mediums(images) : m <= n

\* C13: in both normalizers the selected image is the url of the first
\* MEDIUM entry, wherever it stands, when that url is not empty; without a
\* MEDIUM entry, or when the first MEDIUM entry's url is empty, it is the
\* url of the first entry; for an empty or absent array it is absent.
C13_ImageSelectionNonEmptyUrl ==
    Normalized =>
        \A i \in 1..Len(GivenImages) :
            LET images == Entries(GivenImages[i]) IN
            IF Mediums(images) # {} /\ images[FirstMedium(images)].url # ""
            THEN SelectedImages[i] = Some(images[FirstMedium(images)].url)
            ELSE IF Len(images) > 0 THEN SelectedImages[i] = Some(images[1].url)
            ELSE SelectedImages[i] = None

\* the list-item normalizer selected the MEDIUM entry standing last of three
C13_Witness ==
    /\ Normalized /\ probe.fn = "getListItems" /\ Len(GivenImages) = 1
    /\ Mediums(Entries(GivenImages[1])) = {3}
    /\ SelectedImages[1] = Some("b.jpg")
    /\ Entries(GivenImages[1])[1].url = "a.jpg"

\* C14: for a sparse envelope, any array or nested object below the
\* top-level result object absent, the search, list-summary and list-detail
\* normalizers do not raise; the one normalizer that raises is the
\* list-detail one, when the top-level list object is absent.
C14_SparseEnvelopes ==
    (probe.applied
        /\ probe.fn \in {"searchProducts", "getListItems", "getShoppingLists"}) =>
        (probe.output.kind = "throw" <=>
            (probe.fn = "getListItems" /\ ~IsSome(probe.input.getShoppingListV2)))

\* the lists of the list-summary response the probe holds, when it has them
InputLists ==
    LET v2 == probe.input.getShoppingListsV2
    IN IF IsSome(v2) THEN Get(v2).lists ELSE None

\* C15: for a list-summary response with N entries getShoppingLists returns
\* N entries in the same order, id and name copied, itemCount the entry's
\* totalItemCount, createdAt its created and updatedAt its updated, under
\* these five keys only; an absent lists field yields an empty result.
C15_ListSummaries ==
    Applied("getShoppingLists") =>
        LET lists == IF IsSome(InputLists) THEN Get(InputLists) ELSE <<>>
            out == probe.output.value
        IN /\ probe.output.kind = "return"
           /\ Len(out) = Len(lists)
           /\ \A i \in 1..Len(lists) :
                  /\ DOMAIN out[i] = {"id", "name", "itemCount", "createdAt",
                                      "updatedAt"}
                  /\ out[i].id = lists[i].id
                  /\ out[i].name = lists[i].name
                  /\ out[i].itemCount = lists[i].totalItemCount
                  /\ out[i].createdAt = lists[i].created
                  /\ out[i].updatedAt = lists[i].updated

\* two different lists, the first with both dates, in the order given
C15_Witness ==
    /\ Applied("getShoppingLists") /\ Len(probe.output.value) = 2
    /\ probe.output.value[1].id = UUID_DEFAULT
    /\ probe.output.value[2].id = UUID_LIST
    /\ probe.output.value[1].createdAt = Some("2024-01-01T00:00:00Z")
    /\ probe.output.value[1].updatedAt = Some("2024-02-02T00:00:00Z")
    /\ probe.output.value[1].itemCount = 15

\* an absent lists field
C15_WitnessAbsent ==
    /\ Applied("getShoppingLists") /\ ~IsSome(InputLists)
    /\ probe.output.value = <<>>

\* `s` without its leading and trailing white space
RECURSIVE Stripped(_)
Stripped(s) ==
    IF s = <<>> THEN s
    ELSE IF Head(s) \in {" ", "\t", "\n"} THEN Stripped(Tail(s))
    ELSE IF s[Len(s)] \in {" ", "\t", "\n"} THEN Stripped(SubSeq(s, 1, Len(s) - 1))
    ELSE s

AllDigits(s) ==
    s # <<>> /\ \A i \in 1..Len(s) :
        s[i] \in {"0", "1", "2", "3", "4", "5", "6", "7", "8", "9"}

HexChars == {"0", "1", "2", "3", "4", "5", "6", "7", "8", "9",
             "a", "b", "c", "d", "e", "f", "A", "B", "C", "D", "E", "F"}

\* 8-4-4-4-12 hexadecimal digits, in either case
CanonicalUuid(s) ==
    /\ Len(s) = 36
    /\ \A i \in {9, 14, 19, 24} : s[i] = "-"
    /\ \A i \in (1..36) \ {9, 14, 19, 24} : s[i] \in HexChars

\* the validator returned `value`
Accepted(value) == probe.output.first.ok /\ probe.output.first.value = value

\* the validator raised a ValidationError
Rejected ==
    ~probe.output.first.ok /\ probe.output.first.error.cls = "ValidationError"

\* a validator accepts exactly when `accepts`, returning `value`, raises a
\* ValidationError otherwise, and returns a returned value unchanged
AcceptsIff(accepts, value) ==
    /\ IF accepts THEN Accepted(value) ELSE Rejected
    /\ probe.output.again = probe.output.first

\* the three validators of strings behave as C16 states
StringValidators ==
    /\ Applied("validateNonEmpty") =>
           LET t == IF IsSome(probe.input) THEN Stripped(Get(probe.input)) ELSE <<>>
           IN AcceptsIff(t # <<>>, t)
    /\ Applied("validateProductId") =>
           AcceptsIff(AllDigits(Stripped(probe.input)), Stripped(probe.input))
    /\ Applied("validateListId") =>
           AcceptsIff(CanonicalUuid(Stripped(probe.input)), Stripped(probe.input))

OneRecipeCard ==
    /\ Applied("searchRecipes")
    /\ Len(probe.input.html.cards) = 1
    /\ probe.input.limit >= 1
    /\ IsSome(probe.input.html.cards[1].href)
    /\ IsSome(RecipeIdMatch(Get(probe.input.html.cards[1].href)))

\* the trimmed title text of the one card
CardTitleText == Stripped(probe.input.html.cards[1].titleText)

\* `t` is some string written twice
SelfDuplicated(t) ==
    /\ Len(t) % 2 = 0
    /\ SubSeq(t, 1, Len(t) \div 2) = SubSeq(t, Len(t) \div 2 + 1, Len(t))

\* C17: a card whose trimmed title text is a string s written twice gets the
\* title s; a card whose title text is not self-duplicated gets its title
\* text in full.
C17_TitleExtraction ==
    OneRecipeCard =>
        LET t == CardTitleText IN
        /\ (SelfDuplicated(t) /\ t # <<>>) =>
               /\ Len(probe.output) = 1
               /\ probe.output[1].title = SubSeq(t, 1, Len(t) \div 2)
        /\ ~SelfDuplicated(t) =>
               /\ Len(probe.output) = 1
               /\ probe.output[1].title = t

DigitChars == {"0", "1", "2", "3", "4", "5", "6", "7", "8", "9"}

\* `url` holds '/recipe/', one or more digits and '/' from position i on, the
\* digits ending before position j
SegmentAt(url, i, j) ==
    /\ i + 7 <= Len(url)
    /\ SubSeq(url, i, i + 7) = <<"/", "r", "e", "c", "i", "p", "e", "/">>
    /\ j > i + 8 /\ j <= Len(url) /\ url[j] = "/"
    /\ \A n \in (i + 8)..(j - 1) : url[n] \in DigitChars

\* the positions of the /recipe/<digits>/ segments of a link target
Segments(href) ==
    IF IsSome(href)
    THEN {ij \in (1..Len(Get(href))) \X (1..Len(Get(href))) :
              SegmentAt(Get(href), ij[1], ij[2])}
    ELSE {}

\* the digits of the leftmost segment
SegmentDigits(href) ==
    LET ij == CHOOSE s \in Segments(href) : \A o \in Segments(href) : s[1] <= o[1]
    IN SubSeq(Get(href), ij[1] + 8, ij[2] - 1)

\* the positions, in document order, of the cards that `qualifies` holds for
RECURSIVE Positions(_, _, _)
Positions(cards, qualifies(_), from) ==
    IF from > Len(cards) THEN <<>>
    ELSE (IF qualifies(cards[from]) THEN <<from>> ELSE <<>>)
         \o Positions(cards, qualifies, from + 1)

Min(a, b) == IF a <= b THEN a ELSE b

\* the results are the first min(limit, k) of the k qualifying cards
FirstQualifying(qualifies(_)) ==
    LET cards == probe.input.html.cards
        q == Positions(cards, qualifies, 1)
    IN /\ Len(probe.output) = Min(probe.input.limit, Len(q))
       /\ Len(probe.output) <= probe.input.limit
       /\ \A n \in 1..Len(probe.output) :
              /\ probe.output[n].id = SegmentDigits(cards[q[n]].href)
              /\ probe.output[n].title = Title(cards[q[n]].titleText)
              /\ probe.output[n].url \in
                     {Get(cards[q[n]].href), BASE_URL \o Get(cards[q[n]].href)}

LinksToRecipe(card) == Segments(card.href) # {}

\* C18 as stated: the results of searchRecipes are the first min(limit, k)
\* of the k cards, in document order, whose link target contains a
\* /recipe/<digits>/ segment; each id is that digit segment and there are
\* never more than limit results.
C18_FirstQualifyingCards ==
    Applied("searchRecipes") => FirstQualifying(LinksToRecipe)

LinksToRecipeWithTitle(card) ==
    LinksToRecipe(card) /\ Title(card.titleText) # <<>>

\* C18: the results of searchRecipes are the first min(limit, k) of the k
\* cards, in document order, whose link target contains a /recipe/<digits>/
\* segment and whose extracted title is not empty; each id is that digit
\* segment and there are never more than limit results.
C18_FirstQualifyingTitledCards ==
    Applied("searchRecipes") => FirstQualifying(LinksToRecipeWithTitle)

\* of an article and two recipes, the limit of one left the first recipe
C18_Witness ==
    /\ Applied("searchRecipes")
    /\ probe.input.html.cards = <<CARD_ARTICLE, CARD_CHICKEN, CARD_STEW>>
    /\ probe.input.limit = 1
    /\ Len(probe.output) = 1
    /\ probe.output[1].id = <<"1", "2", "3", "4", "5">>

\* an optional number is omitted or a number, never NaN
NumberOrOmitted(field) == IsSome(field) => ~Get(field).isNaN

\* C19: in the results of searchRecipes and in the recipe that getRecipe maps
\* from structured data, rating and reviewCount are each a parsed number or
\* omitted, never NaN.
C19_RatingsParsedOrOmitted ==
    /\ Applied("searchRecipes") =>
           \A n \in 1..Len(probe.output) :
               /\ NumberOrOmitted(probe.output[n].rating)
               /\ NumberOrOmitted(probe.output[n].reviewCount)
    /\ (Applied("getRecipe") /\ probe.output.kind = "return") =>
           /\ NumberOrOmitted(probe.output.value.rating)
           /\ NumberOrOmitted(probe.output.value.reviewCount)

\* an object whose declared type is 'Recipe' or includes it
IsRecipeObject(item) ==
    /\ item.kind = "object"
    /\ \/ item.type.kind = "string" /\ item.type.names = <<"Recipe">>
       \/ item.type.kind = "array" /\ \E n \in 1..Len(item.type.names) :
                                          item.type.names[n] = "Recipe"

\* the values of the parseable blocks, in document order and array order
RECURSIVE BlockValues(_)
BlockValues(scripts) ==
    IF scripts = <<>> THEN <<>>
    ELSE (IF Head(scripts).valid THEN Head(scripts).items ELSE <<>>)
         \o BlockValues(Tail(scripts))

\* the first Recipe object of the page, if there is one
FirstRecipeObject(scripts) ==
    LET values == BlockValues(scripts)
        recipes == {n \in 1..Len(values) : IsRecipeObject(values[n])}
    IN IF recipes = {} THEN None
       ELSE Some(values[CHOOSE n \in recipes : \A m \in recipes : n <= m])

\* C20: extractJsonLd returns the first Recipe object of the page's blocks,
\* in document order and array order, skipping the blocks that cannot be
\* parsed, and getRecipe takes the HTML fallback exactly when no block
\* contains a Recipe object.
C20_FirstRecipeObject ==
    /\ Applied("extractJsonLd") =>
           probe.output = FirstRecipeObject(probe.input.html.scripts)
    /\ Applied("getRecipe") =>
           ((probe.output = Return(parseRecipeFromHtml(
                                      RecipeId(probe.input.recipeIdOrUrl),
                                      probe.input.html)))
                <=> FirstRecipeObject(probe.input.html.scripts) = None)

\* getRecipe was applied to a page whose one script is a Recipe with an
\* array of recipeInstructions
InstructionsMapped ==
    /\ Applied("getRecipe")
    /\ Len(probe.input.html.scripts) = 1
    /\ probe.input.html.scripts[1].valid
    /\ Len(probe.input.html.scripts[1].items) = 1
    /\ IsRecipeObject(probe.input.html.scripts[1].items[1])
    /\ IsSome(probe.input.html.scripts[1].items[1].recipeInstructions)

\* the plain strings, and the texts of the objects with a text
RECURSIVE RecognizedTexts(_)
RecognizedTexts(entries) ==
    IF entries = <<>> THEN <<>>
    ELSE (IF Head(entries).kind \in {"string", "object"} /\ Head(entries).text # <<>>
          THEN Head(entries).text ELSE <<>>)
         \o RecognizedTexts(Tail(entries))

\* C21: the instructions of a structured-data Recipe are, in input order, the
\* entries of recipeInstructions that are strings and the texts of those that
\* are objects with a text; every other entry contributes nothing and the
\* mapping does not raise.
C21_InstructionEntries ==
    InstructionsMapped =>
        /\ probe.output.kind = "return"
        /\ probe.output.value.instructions =
               RecognizedTexts(Get(probe.input.html.scripts[1].items[1].recipeInstructions))

\* getRecipe was applied to a page without structured data
FallbackTaken ==
    /\ Applied("getRecipe")
    /\ probe.input.html.scripts = <<>>
    /\ probe.output.kind = "return"

\* the trimmed texts of at least `least` characters, in document order
RECURSIVE LongTexts(_, _)
LongTexts(texts, least) ==
    IF texts = <<>> THEN <<>>
    ELSE (IF Len(Stripped(Head(texts))) >= least THEN <<Stripped(Head(texts))>>
          ELSE <<>>)
         \o LongTexts(Tail(texts), least)

\* C22: the instructions of the HTML fallback are, in document order, the
\* trimmed texts of the instruction elements that have at least 11
\* characters; those of 10 characters or less are discarded.
C22_FallbackInstructions ==
    (Applied("getRecipe") /\ probe.input.html.scripts = <<>>) =>
        /\ probe.output.kind = "return"
        /\ probe.output.value.instructions =
               LongTexts(probe.input.html.instructionTexts, 11)

\* of a text of 10 characters, a padded one of 11 and one of 51, the last two
\* were kept, trimmed and in order
C22_Witness ==
    /\ FallbackTaken
    /\ probe.input.html.instructionTexts =
           <<TEXT_10, <<"\n", " ">> \o TEXT_11 \o <<"\t">>, TEXT_51>>
    /\ probe.output.value.instructions = <<TEXT_11, TEXT_51>>

\* a request of the operation `operationName` was issued
RequestIssued(operationName) ==
    \E n \in 1..Len(calls) : calls[n].request.operationName = operationName

\* addToList was invoked with a searchTerm and no productId, and the search
\* returned without a product
SearchFoundNothing ==
    /\ tool.fn = "addToList"
    /\ ~TruthyStr(tool.input.productId)
    /\ TruthyStr(tool.input.searchTerm)
    /\ Len(calls) >= 1
    /\ calls[1].request.operationName = "productSearchItems"
    /\ calls[1].state = "returned"
    /\ SearchItems(calls[1].data) = <<>>

\* the items of the list that the first request returned
FetchedItems == GetListItemsFinish(tool.listId, Return(calls[1].data)).value.items

\* removeFromList was invoked with a productName and no itemIds, and the list
\* was returned without an item whose name contains the productName
ListHasNoMatch ==
    /\ tool.fn = "removeFromList"
    /\ ~IsSome(tool.input.itemIds)
    /\ TruthyStr(tool.input.productName)
    /\ Len(calls) >= 1
    /\ calls[1].request.operationName = "getShoppingListV2"
    /\ calls[1].state = "returned"
    /\ GetListItemsFinish(tool.listId, Return(calls[1].data)).kind = "return"
    /\ \A n \in 1..Len(FetchedItems) :
           ~Includes(ToLowerCase(FetchedItems[n].name),
                     ToLowerCase(Get(tool.input.productName)))

\* C23: when the search of add-to-list yields no product, or the list of
\* remove-from-list holds no item whose name contains the productName, no add
\* or delete mutation is issued and the invocation ends with NotFoundError.
C23_NotFoundWithoutMutation ==
    (SearchFoundNothing \/ ListHasNoMatch) =>
        /\ ~RequestIssued("addToShoppingListV2")
        /\ ~RequestIssued("deleteShoppingListItems")
        /\ phase = "done" =>
               /\ tool.cmp.kind = "throw"
               /\ tool.cmp.error.cls = "NotFoundError"

\* remove-from-list ended with NotFoundError on a list of items of other names
C23_Witness ==
    /\ phase = "done"
    /\ ListHasNoMatch
    /\ Len(FetchedItems) > 0
    /\ tool.cmp.error.cls = "NotFoundError"
    /\ Len(calls) = 1

ListTools == {"addToList", "getListItems", "removeFromList", "updateItemQuantity"}

\* the list that a request names, for the operations that name one
TargetedList(request) ==
    IF request.operationName = "getShoppingListV2" THEN request.variables.input.id
    ELSE request.variables.input.listId

ListOperations == {"getShoppingListV2", "addToShoppingListV2",
                   "deleteShoppingListItems", "updateShoppingListItem"}

\* every request that names a list names the caller's, or else the default
CallerListElseDefault ==
    \A n \in 1..Len(calls) :
        calls[n].request.operationName \in ListOperations =>
            TargetedList(calls[n].request) =
                IF TruthyStr(tool.input.listId) THEN Get(tool.input.listId)
                ELSE Get(env.HEB_DEFAULT_LIST_ID)

\* a list tool runs without a listId and without a default list
NoListAvailable ==
    /\ tool.fn \in ListTools
    /\ ~TruthyStr(tool.input.listId)
    /\ ~TruthyStr(env.HEB_DEFAULT_LIST_ID)

NoListRequest == \A n \in 1..Len(calls) :
                     calls[n].request.operationName \notin ListOperations

EndedWithNoListId ==
    tool.cmp.kind = "throw" /\ tool.cmp.error = ValidationError(MSG_NO_LIST_ID)

\* C24 as stated: the list tools target the caller's listId, else the
\* default list; without either the invocation issues no list fetch and no
\* mutation and fails with the ValidationError 'No list ID provided and
\* HEB_DEFAULT_LIST_ID is not set'.
C24_ListTarget ==
    tool.fn \in ListTools =>
        /\ CallerListElseDefault
        /\ NoListAvailable => /\ NoListRequest
                              /\ phase = "done" => EndedWithNoListId

\* addToList came as far as its choice of the list: the quantity is positive
\* and the product is the caller's numeric productId or the first result of
\* the search
ProductDetermined ==
    /\ tool.input.quantity > 0
    /\ IF TruthyStr(tool.input.productId)
       THEN AllDigits(Stripped(Get(tool.input.productId)))
       ELSE /\ Len(calls) >= 1
            /\ calls[1].state = "returned"
            /\ SearchFinish(Return(calls[1].data)).kind = "return"
            /\ Len(SearchFinish(Return(calls[1].data)).value) > 0

\* C24: the list tools target the caller's listId, else the default list;
\* without either the invocation issues no list fetch and no mutation and
\* fails, with the ValidationError 'No list ID provided and
\* HEB_DEFAULT_LIST_ID is not set' unless add-to-list failed before it chose
\* the list.
C24_ListTargetAfterProduct ==
    tool.fn \in ListTools =>
        /\ CallerListElseDefault
        /\ NoListAvailable =>
               /\ NoListRequest
               /\ phase = "done" =>
                      /\ tool.cmp.kind = "throw"
                      /\ EndedWithNoListId <=>
                             (tool.fn = "addToList" => ProductDetermined)

\* update-item-quantity without a listId sent its mutation to the default list
C24_Witness ==
    /\ tool.fn = "updateItemQuantity"
    /\ ~TruthyStr(tool.input.listId)
    /\ Len(calls) = 1
    /\ calls[1].request.operationName = "updateShoppingListItem"
    /\ TargetedList(calls[1].request) = UUID_DEFAULT
    /\ phase = "done"
    /\ tool.cmp.kind = "return"

\* the product identifiers of an add-to-list mutation's payload
PayloadProductIds(request) ==
    {request.variables.input.listItems[i].item.productId :
        i \in 1..Len(request.variables.input.listItems)}

\* C26: every product identifier that addToList places in an
\* addToShoppingListV2 payload matches ^\d+$, whether it is the caller's
\* productId or the first search result's.
C26_PayloadProductIdsNumeric ==
    tool.fn = "addToList" =>
        \A n \in 1..Len(calls) :
            calls[n].request.operationName = "addToShoppingListV2" =>
                \A productId \in PayloadProductIds(calls[n].request) :
                    AllDigits(productId)

\* C30: for every input that RemoveFromListInputSchema accepts,
\* removeFromList never issues deleteShoppingListItems with an empty list of
\* item identifiers.
C30_NoEmptyDelete ==
    (tool.fn = "removeFromList" /\ RemoveFromListInputSchema(tool.input).ok) =>
        \A n \in 1..Len(calls) :
            calls[n].request.operationName = "deleteShoppingListItems" =>
                Len(calls[n].request.variables.input.itemIds) > 0

\* C27: the transport client is constructed at most once in a process:
\* once clientInstance is set no step replaces or modifies it, it is the
\* client composed from the environment, and every request carries that
\* client's cookie header.
C27_SingleClient ==
    [][/\ IsSome(clientInstance) => clientInstance' = clientInstance
       /\ IsSome(clientInstance') =>
              clientInstance' = Some(HEBGraphQLClient(Configured(env)))
       /\ \A n \in 1..Len(calls') :
              /\ IsSome(clientInstance')
              /\ calls'[n].cookie = Get(clientInstance').cookieString]_vars

\* addToList by search term has sent its second request: getClient was
\* called for the search and again for the mutation
C27_Witness ==
    /\ tool.fn = "addToList"
    /\ Len(calls) = 2
    /\ IsSome(clientInstance)
    /\ calls[1].cookie = calls[2].cookie
    /\ calls[2].cookie = Get(clientInstance).cookieString

\* the requests that the tool functions built with the query builders
BuiltRequests ==
    IF entry \in {"handler", "tool"}
    THEN {calls[n].request : n \in 1..Len(calls)}
    ELSE {}

\* the envelope {operationName, variables, extensions.persistedQuery:
\* {version: 1, sha256Hash}} with the table's hash of that operation
PersistedEnvelope(request) ==
    /\ DOMAIN request = {"operationName", "variables", "extensions"}
    /\ DOMAIN request.extensions = {"persistedQuery"}
    /\ DOMAIN request.extensions.persistedQuery = {"version", "sha256Hash"}
    /\ request.extensions.persistedQuery.version = 1
    /\ request.operationName \in DOMAIN QUERY_HASHES
    /\ request.extensions.persistedQuery.sha256Hash
           = QUERY_HASHES[request.operationName]
    /\ \A other \in DOMAIN QUERY_HASHES \ {request.operationName} :
           request.extensions.persistedQuery.sha256Hash # QUERY_HASHES[other]

\* C29: every request that a query builder produced has the persisted-query
\* envelope with version 1 and the hash that QUERY_HASHES holds for exactly
\* its operationName.
C29_PersistedEnvelope ==
    \A request \in BuiltRequests : PersistedEnvelope(request)

\* addToList by search term has built a search request and a mutation
C29_Witness ==
    /\ entry = "tool"
    /\ Len(calls) = 2
    /\ calls[1].request.operationName = "productSearchItems"
    /\ calls[2].request.operationName = "addToShoppingListV2"
    /\ calls[1].request.extensions.persistedQuery.sha256Hash
           # calls[2].request.extensions.persistedQuery.sha256Hash

\* a required variable of process.env is not set or is empty
RequiredMissing ==
    \E value \in {env.HEB_SAT_COOKIE, env.HEB_JSESSIONID, env.HEB_REESE84,
                  env.HEB_STORE_ID} : ~TruthyStr(value)

\* the server has been connected and takes call-tool requests
Started == phase \in {"idle", "running", "done"}

\* the process ended with a non-zero status after the diagnostic of the
\* missing variables
ExitedOnEnvironment ==
    /\ phase = "exited"
    /\ result.kind = "exit"
    /\ result.code # 0
    /\ result.text = PFX_FATAL \o loadEnvironment(env).error.message
    /\ Len(loadEnvironment(env).error.message) > 0

\* C25: a required configuration variable that is not set or is empty is
\* detected when the process starts, before any tool call is accepted, and
\* ends the process with a non-zero exit status after a diagnostic message;
\* once the server has started every getEnvironment call of a tool function
\* succeeds, and no step of a tool call ends the process.
C25_StartupValidation ==
    /\ [](/\ (RequiredMissing /\ phase # "starting") => ExitedOnEnvironment
          /\ phase \in {"starting", "exited"} =>
                 entry = "none" /\ calls = <<>> /\ tool = NoFrame
          /\ Started => getEnvironment(env).ok /\ result.kind # "exit")
    /\ [][/\ phase' = "exited" => phase = "starting"
          /\ Started => Started']_vars

\* the process was started without HEB_SAT_COOKIE and has exited with status 1
C25_Witness ==
    /\ ~IsSome(env.HEB_SAT_COOKIE)
    /\ IsSome(env.HEB_JSESSIONID)
    /\ ExitedOnEnvironment
    /\ result.code = 1

\* the invocations whose record a step changes
Moved == {i \in Invocations : exec'[i] # exec[i]}

\* every started invocation has one request in the log, its own
OwnRequest(i) ==
    exec[i].pc # "idle" =>
        /\ Cardinality({n \in 1..Len(calls) : calls[n].seq = i}) = 1
        /\ \A n \in 1..Len(calls) :
               calls[n].seq = i => calls[n].request = exec[i].request

\* an invocation that returned, returned the data of the envelope that
\* answered its own request
OwnResponse(i) ==
    (exec[i].pc = "done" /\ exec[i].outcome.kind = "return") =>
        /\ IsSome(exec[i].result)
        /\ Get(exec[i].result) \in Envelopes(exec[i].request.operationName)
        /\ exec[i].outcome.value = Get(exec[i].result).data

\* C28: in every interleaving of concurrent execute invocations on the
\* shared client each invocation has its own controller, timer and request:
\* a step moves one invocation and leaves the others as they were, an
\* invocation is aborted only by its own timer, an ended invocation keeps its
\* outcome, each invocation returns the response to its own request, and the
\* shared client is not written once constructed.
C28_IndependentInvocations ==
    /\ [](\A i \in Invocations : OwnRequest(i) /\ OwnResponse(i))
    /\ [][/\ Cardinality(Moved) <= 1
          /\ \A i \in Invocations :
                 /\ (exec'[i].aborted /\ ~exec[i].aborted) => exec[i].timerArmed
                 /\ exec[i].pc = "done" => exec'[i] = exec[i]
          /\ IsSome(clientInstance) => clientInstance' = clientInstance]_vars

\* the first invocation has timed out while the second, started before that,
\* awaits the body of its response with its controller not aborted
C28_Witness ==
    /\ exec[1].pc = "done"
    /\ exec[1].aborted
    /\ exec[1].outcome = Throw(NetworkError(MSG_TIMEOUT))
    /\ exec[2].pc = "awaitJson"
    /\ ~exec[2].aborted
    /\ exec[1].request # exec[2].request
====
